---- MODULE Spec2Model ----
(***************************************************************************)
(* A model of the blacksmith agent harness: the retry policy               *)
(* (src/src/retry.rs), the rate-limit backoff (src/src/ratelimit.rs), the  *)
(* status tracker (src/src/status.rs) and the iteration loop that drives   *)
(* them.  main.rs declares `mod runner;` but the runner itself is not in   *)
(* the source tree, so the loop is modelled from section 4.1 of the        *)
(* specification; everything else is translated from the Rust source.      *)
(***************************************************************************)
EXTENDS Integers, Sequences, FiniteSets, TLC

VARIABLES
    policy,         \* RetryPolicy {max_retries, min_output_bytes, current_attempt}
    decisions,      \* RetryDecisions returned since construction / last reset
    outputs,        \* output_bytes passed to evaluate since construction / last reset
    bk,             \* backoff_delay's arguments and its last two results
    config,         \* HarnessConfig: the settings the loop reads
    pc,             \* the step the loop is at
    tracker,        \* StatusTracker
    status_file,    \* the StatusData in the status file, or NoFile
    counter_file,   \* the global iteration counter on disk
    global_iteration,         \* the iteration number of the current session
    iteration,                \* the productive iteration count
    consecutive_rate_limits,  \* rate-limited sessions in a row
    session,        \* the result of the session of this attempt
    ingested,       \* history: ingestion was attempted for that session
    decision,       \* the retry decision of this attempt
    backoff_secs,   \* the backoff computed for this attempt, in seconds
    shutdown,       \* the flag a first terminate / interrupt signal sets
    stop_file,      \* the STOP sentinel file exists
    interrupted,    \* a second interrupt has arrived within the grace window
    exit_code,      \* <<>> while the process runs, <<code>> once it exited
    spawns,         \* history: how many sessions were spawned, and the latest
    attempts,       \* history: sessions spawned in this productive iteration
    post_hooks_ran, \* history: post-hooks ran for this attempt
    pre_hooks_log,  \* history: exit codes of the pre-hooks at their latest run
    post_hooks_log, \* history: exit codes of the post-hooks at their latest run
    sleeps,         \* history: backoff sleeps since the last session that
                    \* was not rate-limited, in seconds
    crashes,         \* history: crashes of the harness process so far
    wd,             \* the watchdog, the child and the output file of a session wait
    sw,             \* StatusFile::write: the directory, the files, the writer and a reader
    ig,             \* ingestion: the events and observations tables, the clock and the call
    ex,             \* extraction rules: the lines, the results and the rule applied last
    cz,             \* compression: the sessions directory and the sweep over it
    oc,             \* OpenCode adapter: the file, the messages left and the token sums
    ad              \* Aider adapter: the transcript, the line reached and the turn count

retryVars == <<policy, decisions, outputs>>
memVars == <<tracker, global_iteration, iteration, consecutive_rate_limits,
             session, ingested, decision, backoff_secs, attempts, post_hooks_ran,
             pre_hooks_log, post_hooks_log, sleeps>>
loopVars == <<config, pc, status_file, counter_file, shutdown, stop_file,
              interrupted, exit_code,
              spawns, crashes, wd, memVars>>
auxVars == <<sw, ig, ex, cz, oc, ad>>
vars == <<policy, decisions, outputs, bk, loopVars, auxVars>>

----------------------------------------------------------------------------
(* Bounds of the model *)

MaxRetries == 3      \* max_retries is drawn from 0..MaxRetries
MaxMinBytes == 2     \* min_output_bytes is drawn from 0..MaxMinBytes
MaxBytes == 3        \* output_bytes is drawn from 0..MaxBytes
MaxEvals == 5        \* evaluate calls between two resets
MaxCount == 66       \* consecutive_count passed to backoff_delay: 0..MaxCount
MaxIterations == 2   \* the loop's max_iterations is drawn from 0..MaxIterations
MaxEmptyRetries == 2 \* the loop's max_empty_retries: 0..MaxEmptyRetries
MaxSessionBytes == 1 \* a session's output_bytes and the loop's
                     \* min_output_bytes: 0..MaxSessionBytes
MaxConsecutive == 2  \* max_consecutive_rate_limits: 0..MaxConsecutive
MaxCrashes == 1      \* crashes of the harness process in one behaviour
MaxHooks == 2        \* pre-session and post-session hooks: 0..MaxHooks each
MaxCheckInterval == 2 \* the watchdog's check_interval: 1..MaxCheckInterval
MaxStaleTimeout == 2  \* the watchdog's stale_timeout: 1..MaxStaleTimeout
MaxWatchBytes == 2    \* bytes a watched child writes: 0..MaxWatchBytes
MaxStatusWrites == 2  \* calls of StatusFile::write in one behaviour
MaxReads == 2         \* reads of the status path in one behaviour
MaxIngestions == 2    \* calls of ingest_session_with_rules in one behaviour
MaxLines == 2         \* lines of one source of a session output
MaxRuleRuns == 1      \* rules applied to the lines in one behaviour
MaxFileNumber == 1    \* session files 0.jsonl .. MaxFileNumber.jsonl
MaxCurrent == 2       \* current_iteration of a sweep
MaxCompressAfter == 1 \* compress_after of a sweep
MaxMessages == 2      \* messages in one list of an OpenCode output file
MaxNow == 2           \* the clock of the ingestions: 0..MaxNow half-seconds
MaxTranscript == 4    \* lines of an Aider transcript

----------------------------------------------------------------------------
(* src/src/retry.rs *)

\* enum RetryDecision { Proceed, Retry { attempt }, Skip }
Proceed == [kind |-> "Proceed", attempt |-> 0]
Retry(n) == [kind |-> "Retry", attempt |-> n]
Skip == [kind |-> "Skip", attempt |-> 0]

\* RetryPolicy::new
new(max_retries, min_output_bytes) ==
    [max_retries |-> max_retries,
     min_output_bytes |-> min_output_bytes,
     current_attempt |-> 0]

\* A variant of evaluate whose exhaustion test is `<` instead of `<=`.
evaluate_OffByOne(p, output_bytes) ==
    IF output_bytes >= p.min_output_bytes
    THEN [policy |-> p, decision |-> Proceed]
    ELSE LET q == [p EXCEPT !.current_attempt = p.current_attempt + 1]
         IN IF q.current_attempt < q.max_retries
            THEN [policy |-> q, decision |-> Retry(q.current_attempt)]
            ELSE [policy |-> q, decision |-> Skip]

\* A variant of evaluate whose threshold test is `>` instead of `>=`.
evaluate_StrictThreshold(p, output_bytes) ==
    IF output_bytes > p.min_output_bytes
    THEN [policy |-> p, decision |-> Proceed]
    ELSE LET q == [p EXCEPT !.current_attempt = p.current_attempt + 1]
         IN IF q.current_attempt <= q.max_retries
            THEN [policy |-> q, decision |-> Retry(q.current_attempt)]
            ELSE [policy |-> q, decision |-> Skip]

\* A variant of evaluate that clears the attempt counter when it proceeds.
evaluate_ProceedResets(p, output_bytes) ==
    IF output_bytes >= p.min_output_bytes
    THEN [policy |-> [p EXCEPT !.current_attempt = 0], decision |-> Proceed]
    ELSE LET q == [p EXCEPT !.current_attempt = p.current_attempt + 1]
         IN IF q.current_attempt <= q.max_retries
            THEN [policy |-> q, decision |-> Retry(q.current_attempt)]
            ELSE [policy |-> q, decision |-> Skip]

\* RetryPolicy::evaluate: the policy after the call and the decision returned.
evaluate(p, output_bytes) ==
    IF output_bytes >= p.min_output_bytes
    THEN [policy |-> p, decision |-> Proceed]
    ELSE LET q == [p EXCEPT !.current_attempt = p.current_attempt + 1]
         IN IF q.current_attempt <= q.max_retries
            THEN [policy |-> q, decision |-> Retry(q.current_attempt)]
            ELSE [policy |-> q, decision |-> Skip]

\* A reset that leaves the counter as it is.
reset_Keep(p) == p

\* RetryPolicy::reset
reset(p) == [p EXCEPT !.current_attempt = 0]

----------------------------------------------------------------------------
(* Unsigned 64-bit integers.  TLC's integers are 32 bits wide, so a u64 is  *)
(* a little-endian sequence of NumLimbs limbs below LimbBase, and a natural *)
(* number of any size is such a sequence of any length.                     *)

U64Bits == 64
LimbBits == 8
LimbBase == 2 ^ LimbBits
NumLimbs == U64Bits \div LimbBits

RECURSIVE Limbs(_, _)
Limbs(k, len) ==
    IF len = 0 THEN <<>> ELSE <<k % LimbBase>> \o Limbs(k \div LimbBase, len - 1)

\* The u64 of value k (k below 2^31).
U64(k) == Limbs(k, NumLimbs)

\* u64::MAX
U64_MAX == [i \in 1..NumLimbs |-> LimbBase - 1]

\* Limb i of natural a; limbs past its length are 0.
Limb(a, i) == IF i <= Len(a) THEN a[i] ELSE 0

\* The natural 2^n.
BigPow2(n) ==
    [i \in 1..(n \div LimbBits + 1) |->
        IF i = n \div LimbBits + 1 THEN 2 ^ (n % LimbBits) ELSE 0]

\* The natural a * b, by schoolbook multiplication.
BigMul(a, b) ==
    LET n == Len(a) + Len(b)
        Col(k) ==
            LET S[i \in 0..Len(a)] ==
                    IF i = 0 THEN 0
                    ELSE S[i - 1] + (IF (k + 1 - i) \in 1..Len(b)
                                     THEN a[i] * b[k + 1 - i] ELSE 0)
            IN S[Len(a)]
        Carry[k \in 0..n] ==
            IF k = 0 THEN 0 ELSE (Carry[k - 1] + Col(k)) \div LimbBase
    IN [k \in 1..n |-> (Carry[k - 1] + Col(k)) % LimbBase]

\* a <= b and a = b as naturals.
BigLeq(a, b) ==
    LET n == IF Len(a) >= Len(b) THEN Len(a) ELSE Len(b)
        D == {i \in 1..n : Limb(a, i) # Limb(b, i)}
    IN D = {} \/ LET top == CHOOSE i \in D : \A j \in D : j <= i
                 IN Limb(a, top) < Limb(b, top)

BigEq(a, b) ==
    LET n == IF Len(a) >= Len(b) THEN Len(a) ELSE Len(b)
    IN \A i \in 1..n : Limb(a, i) = Limb(b, i)

BigMin(a, b) == IF BigLeq(a, b) THEN a ELSE b

\* Option<u64>
None == [some |-> FALSE, val |-> <<>>]
Some(v) == [some |-> TRUE, val |-> v]

\* Option::unwrap_or
unwrap_or(opt, default) == IF opt.some THEN opt.val ELSE default

\* A shift that masks its amount to the width (`1u64 << n` in a release
\* build, u64::wrapping_shl) in place of the checked one.
checked_shl_Wrapping(x, rhs) ==
    Some(SubSeq(BigMul(x, BigPow2(rhs % U64Bits)), 1, NumLimbs))

\* u64::checked_shl: None when the shift amount is the width or more, else
\* the shifted value with the bits shifted out discarded.
checked_shl(x, rhs) ==
    IF rhs >= U64Bits
    THEN None
    ELSE Some(SubSeq(BigMul(x, BigPow2(rhs)), 1, NumLimbs))

\* u64::saturating_mul
saturating_mul(a, b) ==
    LET p == BigMul(a, b)
    IN IF \E i \in (NumLimbs + 1)..Len(p) : p[i] # 0
       THEN U64_MAX
       ELSE SubSeq(p, 1, NumLimbs)

\* Ord::min on u64
min(a, b) == IF BigLeq(a, b) THEN a ELSE b

----------------------------------------------------------------------------
(* src/src/ratelimit.rs *)

\* A backoff that grows by initial_delay_secs per consecutive rate limit
\* instead of doubling.
backoff_delay_Linear(initial_delay_secs, consecutive_count, max_delay_secs) ==
    LET delay == saturating_mul(initial_delay_secs, U64(consecutive_count + 1))
    IN min(delay, max_delay_secs)

\* backoff_delay
backoff_delay(initial_delay_secs, consecutive_count, max_delay_secs) ==
    LET shift == unwrap_or(checked_shl(U64(1), consecutive_count), U64_MAX)
        delay == saturating_mul(initial_delay_secs, shift)
    IN min(delay, max_delay_secs)

----------------------------------------------------------------------------
(* src/src/status.rs *)

\* enum HarnessState, as serialized (snake_case)
HarnessState ==
    {"starting", "pre_hooks", "session_running", "watchdog_kill", "retrying",
     "post_hooks", "rate_limited_backoff", "idle", "shutting_down"}

\* StatusTracker::new (the fields the loop sets through the tracker)
StatusTracker_new(max_iterations, global) ==
    [max_iterations |-> max_iterations,
     iteration |-> 0,
     global_iteration |-> global,
     consecutive_rate_limits |-> 0]

\* A setter that stores the count one too high.
set_iteration_OffByOne(t, n) == [t EXCEPT !.iteration = n + 1]

\* StatusTracker::set_iteration
set_iteration(t, n) == [t EXCEPT !.iteration = n]

\* StatusTracker::set_global_iteration
set_global_iteration(t, global) == [t EXCEPT !.global_iteration = global]

\* A setter that drops the value it is given.
set_consecutive_rate_limits_Dropped(t, count) == t

\* StatusTracker::set_consecutive_rate_limits
set_consecutive_rate_limits(t, count) == [t EXCEPT !.consecutive_rate_limits = count]

\* StatusTracker::update: the StatusData built from the tracker and written
\* to the status file by StatusFile::write.
update(t, state) ==
    [state |-> state,
     iteration |-> t.iteration,
     max_iterations |-> t.max_iterations,
     global_iteration |-> t.global_iteration,
     consecutive_rate_limits |-> t.consecutive_rate_limits]

\* The status file does not exist (before the first write, after
\* StatusFile::remove).
NoFile == [state |-> "none"]

\* A removal that leaves the status file in place.
remove_Keep(file) == file

\* StatusFile::remove
remove(file) == NoFile

----------------------------------------------------------------------------
(* src/src/data_dir.rs *)

\* A path built from the iteration number cut to one bit.
session_file_Truncated(n) == <<"sessions", n % 2, ".jsonl">>

\* DataDir::session_file: sessions/{iteration}.jsonl
session_file(n) == <<"sessions", n, ".jsonl">>

----------------------------------------------------------------------------
(* Values of the variables a specification does not use *)

\* No session has ended / no decision has been taken in this attempt.
NoSession == [outcome |-> "none", exit_code |-> <<>>, output_bytes |-> 0,
              rate_limited |-> FALSE]
NoDecision == [kind |-> "None", attempt |-> 0]

\* The memory of a harness process that has just started.
FreshMemory(status) ==
    /\ tracker = status
    /\ global_iteration = 0
    /\ iteration = 0
    /\ consecutive_rate_limits = 0
    /\ session = NoSession
    /\ ingested = FALSE
    /\ decision = NoDecision
    /\ backoff_secs = 0
    /\ attempts = 0
    /\ post_hooks_ran = FALSE
    /\ pre_hooks_log = <<>>
    /\ post_hooks_log = <<>>
    /\ sleeps = <<>>

\* No session has been spawned on the data directory yet.
NoSpawn == [count |-> 0, global_iteration |-> -1, output_file |-> <<>>]

\* The watchdog with its settings, before any session wait.
Watchdog_new(check_interval, stale_timeout) ==
    [check_interval |-> check_interval, stale_timeout |-> stale_timeout,
     phase |-> "idle", child |-> "none", child_code |-> <<>>,
     exists |-> FALSE, len |-> 0, prev_len |-> 0, started |-> FALSE,
     stall |-> 0, since_tick |-> 0, since_write |-> 0, signals |-> 0,
     report |-> "StillRunning"]

\* No watchdog is modelled: the session wait is one step.
NoWatch == Watchdog_new(0, 0)

NoLoop ==
    /\ config = [max_iterations |-> 0, max_empty_retries |-> 0,
                 min_output_bytes |-> 0, max_consecutive_rate_limits |-> 0,
                 initial_delay_secs |-> 0, max_delay_secs |-> 0,
                 pre_session |-> 0, post_session |-> 0]
    /\ pc = "none"
    /\ status_file = NoFile
    /\ counter_file = 0
    /\ shutdown = FALSE
    /\ stop_file = FALSE
    /\ interrupted = FALSE
    /\ exit_code = <<>>
    /\ spawns = NoSpawn
    /\ crashes = 0
    /\ wd = NoWatch
    /\ FreshMemory(StatusTracker_new(0, 0))

\* StatusFile::write is not running and nothing reads the status path.
NoStatusWrite ==
    [names |-> [n \in {"path", "tmp"} |-> 0], files |-> <<>>,
     wpc |-> "none", data |-> "", before |-> <<>>, writes |-> 0,
     rfd |-> 0, ropen |-> <<>>, robs |-> <<>>]

\* An empty database and no ingestion running.
NoIngestion ==
    [events |-> <<>>, observations |-> <<>>, now |-> 0, ipc |-> "none",
     calls |-> 0, session |-> 0, exit_code |-> <<>>,
     adapter |-> [ok |-> FALSE, metrics |-> <<>>],
     rules |-> [ok |-> FALSE, results |-> <<>>],
     ts |-> 0, i |-> 0, before |-> [events |-> <<>>, observations |-> <<>>],
     done |-> <<>>]

\* No extraction rule applied, no lines.
NoRules == [lines |-> <<>>, results |-> <<>>, before |-> <<>>,
            rule |-> [some |-> FALSE, val |-> <<>>], applied |-> 0]

\* No sweep over the sessions directory.
NoCompression ==
    [dir |-> <<>>, before |-> <<>>, todo |-> {}, cpc |-> "none",
     current_iteration |-> 0, compress_after |-> 0, failed |-> {}, io_failure |-> FALSE,
     step |-> "none", cur |-> <<>>, buf |-> <<>>]

\* No OpenCode output being parsed.
NoParse ==
    [file |-> [shape |-> "none", value |-> <<>>], opc |-> "none", messages |-> <<>>,
     input_tokens |-> [some |-> FALSE, val |-> 0],
     output_tokens |-> [some |-> FALSE, val |-> 0]]

\* No Aider transcript being parsed.
NoAider ==
    [lines |-> <<>>, pos |-> 0, apc |-> "none", in_assistant_block |-> FALSE,
     current_assistant_text |-> <<>>, turns_total |-> 0]

\* The parts of the harness that a specification of the loop leaves alone.
NoAux ==
    /\ sw = NoStatusWrite /\ ig = NoIngestion /\ ex = NoRules
    /\ cz = NoCompression /\ oc = NoParse /\ ad = NoAider

NoBackoff ==
    bk = [initial |-> U64(0), max |-> U64(0), count |-> 0,
          delay |-> <<>>, prev |-> <<>>]

NoRetryHistory == decisions = <<>> /\ outputs = <<>>

----------------------------------------------------------------------------
(* backoff_delay applied to growing counts for a fixed initial and maximum  *)
(* delay.                                                                   *)

\* The u64 of value 2^n (n below 64).
U64Pow2(n) == [i \in 1..NumLimbs |-> Limb(BigPow2(n), i)]

InitialDelays ==
    {U64(0), U64(1), U64(2), U64(3), U64(600), U64Pow2(32), U64Pow2(63), U64_MAX}
MaxDelays ==
    {U64(0), U64(1), U64(8), U64(600), U64Pow2(40), U64Pow2(63), U64_MAX}

NotComputed == <<>>

BackoffInit ==
    /\ bk \in [initial : InitialDelays, max : MaxDelays, count : {0},
               delay : {NotComputed}, prev : {NotComputed}]
    /\ policy = new(0, 0)
    /\ NoRetryHistory
    /\ NoLoop
    /\ NoAux

\* Calls backoff_delay(initial, count, max) and moves on to count + 1.
Backoff ==
    /\ bk.count <= MaxCount
    /\ bk' = [bk EXCEPT !.prev = bk.delay,
                        !.delay = backoff_delay(bk.initial, bk.count, bk.max),
                        !.count = bk.count + 1]
    /\ UNCHANGED <<retryVars, loopVars, auxVars>>

BackoffNext == Backoff

SpecBackoff == BackoffInit /\ [][BackoffNext]_vars

----------------------------------------------------------------------------
(* Claims about backoff_delay, checked under SpecBackoff *)

IsU64(v) == Len(v) = NumLimbs /\ \A i \in 1..NumLimbs : v[i] \in 0..(LimbBase - 1)

\* C9: backoff_delay(initial, n, max) = min(initial * 2^n, max) for all
\* inputs, the product saturating at the 64-bit maximum rather than wrapping
\* (n >= 64 included); so for fixed initial and max the delay never
\* decreases as n grows and never exceeds max.
C9_BackoffIsCappedDoubling ==
    bk.delay # NotComputed =>
        /\ IsU64(bk.delay)
        /\ BigEq(bk.delay,
                 BigMin(BigMul(bk.initial, BigPow2(bk.count - 1)), bk.max))
        /\ BigLeq(bk.delay, bk.max)
        /\ bk.prev # NotComputed => BigLeq(bk.prev, bk.delay)

\* C9 witness: a shift by 64 or more of a non-zero initial delay, where the
\* product does not fit in 64 bits, returned the maximum delay u64::MAX.
C9_Witness ==
    /\ bk.delay # NotComputed
    /\ bk.count - 1 >= U64Bits
    /\ bk.initial = U64(3)
    /\ bk.max = U64_MAX
    /\ bk.delay = U64_MAX

----------------------------------------------------------------------------
(* The retry policy driven on its own: any sequence of evaluate and reset  *)
(* calls on a freshly constructed policy.                                  *)

RetryInit ==
    /\ \E r \in 0..MaxRetries, m \in 0..MaxMinBytes : policy = new(r, m)
    /\ decisions = <<>>
    /\ outputs = <<>>
    /\ NoBackoff
    /\ NoLoop
    /\ NoAux

Evaluate ==
    /\ Len(decisions) < MaxEvals
    /\ \E b \in 0..MaxBytes :
         LET r == evaluate(policy, b)
         IN /\ policy' = r.policy
            /\ decisions' = Append(decisions, r.decision)
            /\ outputs' = Append(outputs, b)
    /\ UNCHANGED <<bk, loopVars, auxVars>>

Reset ==
    /\ decisions # <<>>
    /\ policy' = reset(policy)
    /\ decisions' = <<>>
    /\ outputs' = <<>>
    /\ UNCHANGED <<bk, loopVars, auxVars>>

RetryNext == Evaluate \/ Reset

SpecRetry == RetryInit /\ [][RetryNext]_vars

----------------------------------------------------------------------------
(* Claims about the retry policy, checked under SpecRetry *)

\* Every output passed to evaluate since construction / the last reset was
\* below min_output_bytes.
AllBelow == \A i \in 1..Len(outputs) : outputs[i] < policy.min_output_bytes

\* C1: with max_retries = R, a run of evaluate calls whose outputs are all
\* below min_output_bytes, with no reset in between, returns Retry{1},
\* Retry{2}, ..., Retry{R} in that order and then Skip.
C1_RetrySequenceThenSkip ==
    AllBelow =>
        \A i \in 1..Len(decisions) :
            /\ i <= policy.max_retries => decisions[i] = Retry(i)
            /\ i = policy.max_retries + 1 => decisions[i] = Skip

\* C1 witness: two or more retries were handed out and the call after the
\* last of them returned Skip.
C1_Witness ==
    /\ AllBelow
    /\ policy.max_retries >= 2
    /\ Len(decisions) = policy.max_retries + 1
    /\ decisions[1] = Retry(1)
    /\ decisions[policy.max_retries] = Retry(policy.max_retries)
    /\ decisions[Len(decisions)] = Skip

\* C7: evaluate returns Proceed exactly when output_bytes >= min_output_bytes
\* (equality included, and always when min_output_bytes = 0), and a Proceed
\* leaves the policy, current_attempt included, as it was.
C7_ProceedIffAtThreshold ==
    [][Len(decisions') = Len(decisions) + 1 =>
        LET b == outputs'[Len(outputs')]
            d == decisions'[Len(decisions')]
        IN /\ (d = Proceed) <=> (b >= policy.min_output_bytes)
           /\ policy.min_output_bytes = 0 => d = Proceed
           /\ d = Proceed => policy'.current_attempt = policy.current_attempt]_vars

\* C7 witness: an output exactly at a non-zero threshold proceeded, after an
\* earlier retry had left current_attempt above 0.
C7_Witness ==
    /\ Len(decisions) >= 2
    /\ policy.min_output_bytes > 0
    /\ outputs[Len(outputs)] = policy.min_output_bytes
    /\ decisions[Len(decisions)] = Proceed
    /\ decisions[Len(decisions) - 1].kind = "Retry"
    /\ policy.current_attempt = decisions[Len(decisions) - 1].attempt

\* C8: once evaluate has returned Skip, every later call with an output below
\* min_output_bytes (no reset in between) returns Skip too, never Retry; with
\* max_retries = 0 every below-threshold output yields Skip.
C8_SkipIsSticky ==
    /\ \A i, j \in 1..Len(decisions) :
         (i < j /\ decisions[i] = Skip /\ outputs[j] < policy.min_output_bytes)
            => decisions[j] = Skip
    /\ policy.max_retries = 0 =>
         \A j \in 1..Len(decisions) :
            outputs[j] < policy.min_output_bytes => decisions[j] = Skip

\* C8 witness: a Skip, then a Proceed, then another below-threshold output
\* that was skipped again, on a policy that does allow retries.
C8_Witness ==
    /\ policy.max_retries >= 1
    /\ \E i, k, j \in 1..Len(decisions) :
         /\ i < k /\ k < j
         /\ decisions[i] = Skip
         /\ decisions[k] = Proceed
         /\ outputs[j] < policy.min_output_bytes
         /\ decisions[j] = Skip

----------------------------------------------------------------------------
(* The iteration loop.  The runner that main.rs declares is not part of    *)
(* the source tree; the steps below follow section 4.1 of the              *)
(* specification (steps 1 to 10), and call the retry policy, the backoff   *)
(* and the status tracker defined above.                                   *)

\* The value of a u64 that is below 2^31.
RECURSIVE ToNat(_)
ToNat(v) == IF v = <<>> THEN 0 ELSE Head(v) + LimbBase * ToNat(Tail(v))

\* The backoff settings of scenario S4 (1 s, 8 s) and the defaults of
\* BackoffConfig (2 s, 600 s).
BackoffSettings ==
    {[initial_delay_secs |-> 1, max_delay_secs |-> 8],
     [initial_delay_secs |-> 2, max_delay_secs |-> 600]}

\* The exit codes of a failing hook.
HookExitCodes == {1, 2}

\* The exit code after the rate-limit cap, which the specification leaves open.
RateLimitExitCodes == {0, 1}

\* The loop's settings; one pre-session hook and no post-session hook.
Configs ==
    {[max_iterations |-> mi, max_empty_retries |-> mr, min_output_bytes |-> mb,
      max_consecutive_rate_limits |-> mc,
      initial_delay_secs |-> b.initial_delay_secs,
      max_delay_secs |-> b.max_delay_secs,
      pre_session |-> 1, post_session |-> 0] :
        mi \in 0..MaxIterations, mr \in 0..MaxEmptyRetries,
        mb \in 0..MaxSessionBytes, mc \in 0..MaxConsecutive,
        b \in BackoffSettings}

\* A fresh data directory and a harness process that has just started.
FreshRun ==
    /\ pc = "start"
    /\ status_file = NoFile
    /\ counter_file = 0
    /\ shutdown = FALSE
    /\ stop_file = FALSE
    /\ interrupted = FALSE
    /\ exit_code = <<>>
    /\ spawns = NoSpawn
    /\ crashes = 0
    /\ FreshMemory(StatusTracker_new(config.max_iterations, counter_file))
    /\ policy = new(config.max_empty_retries, config.min_output_bytes)
    /\ NoRetryHistory
    /\ NoBackoff
    /\ NoAux

\* The same, with the session wait taken as one step.
FreshLoop == FreshRun /\ wd = NoWatch

LoopInit == config \in Configs /\ FreshLoop

\* What the loop looks at between steps: the flag of the signal handler and
\* the STOP sentinel file.
ShutdownRequested == shutdown \/ stop_file

\* starting: the first status write.
Start ==
    /\ pc = "start"
    /\ status_file' = update(tracker, "starting")
    /\ pc' = "top"
    /\ UNCHANGED <<config, counter_file, shutdown, stop_file, interrupted,
                   exit_code, spawns, crashes, tracker, global_iteration,
                   iteration, consecutive_rate_limits, session, ingested,
                   decision, backoff_secs, attempts, post_hooks_ran,
                   pre_hooks_log, post_hooks_log, sleeps, policy, wd>>
    /\ UNCHANGED <<decisions, outputs, bk, auxVars>>

\* The transition to shutting_down with the given exit code.
ShutDown(code) ==
    /\ status_file' = update(tracker, "shutting_down")
    /\ exit_code' = <<code>>
    /\ pc' = "exiting"

\* Loop head: productive >= max_iterations, or a shutdown request seen
\* between iterations, ends the loop with exit code 0.
LoopEnds ==
    /\ pc = "top"
    /\ ShutdownRequested \/ iteration >= config.max_iterations
    /\ ShutDown(0)
    /\ UNCHANGED <<config, counter_file, shutdown, stop_file, interrupted,
                   spawns, crashes, tracker, global_iteration, iteration,
                   consecutive_rate_limits, session, ingested, decision,
                   backoff_secs, attempts, post_hooks_ran, pre_hooks_log,
                   post_hooks_log, sleeps, policy, wd>>
    /\ UNCHANGED <<decisions, outputs, bk, auxVars>>

\* A loop head that still starts an iteration at productive = max_iterations.
BeginIteration_OffByOne ==
    /\ pc = "top"
    /\ ~ShutdownRequested
    /\ iteration <= config.max_iterations
    /\ policy' = reset(policy)
    /\ attempts' = 0
    /\ session' = NoSession
    /\ ingested' = FALSE
    /\ decision' = NoDecision
    /\ backoff_secs' = 0
    /\ post_hooks_ran' = FALSE
    /\ pc' = "counters"
    /\ UNCHANGED <<config, status_file, counter_file, shutdown, stop_file,
                   interrupted, exit_code, spawns, crashes, tracker,
                   global_iteration, iteration, consecutive_rate_limits,
                   pre_hooks_log, post_hooks_log, sleeps, wd>>
    /\ UNCHANGED <<decisions, outputs, bk, auxVars>>

\* Loop head: a new productive iteration begins; the retry policy is reset.
BeginIteration ==
    /\ pc = "top"
    /\ ~ShutdownRequested
    /\ iteration < config.max_iterations
    /\ policy' = reset(policy)
    /\ attempts' = 0
    /\ session' = NoSession
    /\ ingested' = FALSE
    /\ decision' = NoDecision
    /\ backoff_secs' = 0
    /\ post_hooks_ran' = FALSE
    /\ pc' = "counters"
    /\ UNCHANGED <<config, status_file, counter_file, shutdown, stop_file,
                   interrupted, exit_code, spawns, crashes, tracker,
                   global_iteration, iteration, consecutive_rate_limits,
                   pre_hooks_log, post_hooks_log, sleeps, wd>>
    /\ UNCHANGED <<decisions, outputs, bk, auxVars>>

\* Step 1: read global_iteration from the counter file and write back
\* global_iteration + 1, before anything is spawned.  A retry comes back
\* here and then goes straight to the spawn.
Counters ==
    /\ pc = "counters"
    /\ ~ShutdownRequested
    /\ global_iteration' = counter_file
    /\ counter_file' = counter_file + 1
    /\ tracker' = set_global_iteration(tracker, counter_file)
    /\ pc' = IF decision.kind = "Retry" THEN "spawn" ELSE "pre_hooks"
    /\ UNCHANGED <<config, status_file, shutdown, stop_file, interrupted,
                   exit_code, spawns, crashes, iteration,
                   consecutive_rate_limits, session, ingested, decision,
                   backoff_secs, attempts, post_hooks_ran, pre_hooks_log,
                   post_hooks_log, sleeps, policy, wd>>
    /\ UNCHANGED <<decisions, outputs, bk, auxVars>>

\* Step 2: every pre-hook, run in order, exits with 0.
PreHooksPass ==
    /\ pc = "pre_hooks"
    /\ status_file' = update(tracker, "pre_hooks")
    /\ pre_hooks_log' = [i \in 1..config.pre_session |-> 0]
    /\ pc' = "spawn"
    /\ UNCHANGED <<config, counter_file, shutdown, stop_file, interrupted,
                   exit_code, spawns, crashes, tracker, global_iteration,
                   iteration, consecutive_rate_limits, session, ingested,
                   decision, backoff_secs, attempts, post_hooks_ran,
                   post_hooks_log, sleeps, policy, wd>>
    /\ UNCHANGED <<decisions, outputs, bk, auxVars>>

\* A pre-hook failure that still runs the remaining pre-hooks and exits with
\* the code of the last one.
PreHooksFail_RunsAll ==
    /\ pc = "pre_hooks"
    /\ status_file' = update(tracker, "pre_hooks")
    /\ \E k \in 1..config.pre_session, c \in HookExitCodes :
         /\ pre_hooks_log' = [i \in 1..config.pre_session |->
                                 IF i = k THEN c ELSE 0]
         /\ exit_code' = <<pre_hooks_log'[config.pre_session]>>
    /\ pc' = "done"
    /\ UNCHANGED <<config, counter_file, shutdown, stop_file, interrupted,
                   spawns, crashes, tracker, global_iteration, iteration,
                   consecutive_rate_limits, session, ingested, decision,
                   backoff_secs, attempts, post_hooks_ran, post_hooks_log,
                   sleeps, policy, wd>>
    /\ UNCHANGED <<decisions, outputs, bk, auxVars>>

\* Step 2: the k-th pre-hook exits with a non-zero code after the hooks
\* before it exited with 0; no further hook runs and the process exits with
\* that code.
PreHooksFail ==
    /\ pc = "pre_hooks"
    /\ status_file' = update(tracker, "pre_hooks")
    /\ \E k \in 1..config.pre_session, c \in HookExitCodes :
         /\ pre_hooks_log' = [i \in 1..k |-> IF i = k THEN c ELSE 0]
         /\ exit_code' = <<c>>
    /\ pc' = "done"
    /\ UNCHANGED <<config, counter_file, shutdown, stop_file, interrupted,
                   spawns, crashes, tracker, global_iteration, iteration,
                   consecutive_rate_limits, session, ingested, decision,
                   backoff_secs, attempts, post_hooks_ran, post_hooks_log,
                   sleeps, policy, wd>>
    /\ UNCHANGED <<decisions, outputs, bk, auxVars>>

\* A shutdown request seen before a spawn: no session is spawned.
StopBeforeSpawn ==
    /\ pc \in {"counters", "spawn"}
    /\ ShutdownRequested
    /\ ShutDown(0)
    /\ UNCHANGED <<config, counter_file, shutdown, stop_file, interrupted,
                   spawns, crashes, tracker, global_iteration, iteration,
                   consecutive_rate_limits, session, ingested, decision,
                   backoff_secs, attempts, post_hooks_ran, pre_hooks_log,
                   post_hooks_log, sleeps, policy, wd>>
    /\ UNCHANGED <<decisions, outputs, bk, auxVars>>

\* A spawn that does not look at the shutdown flag or the STOP file.
Spawn_IgnoresShutdown ==
    /\ pc = "spawn"
    /\ status_file' = update(tracker, "session_running")
    /\ spawns' = [count |-> spawns.count + 1,
                  global_iteration |-> global_iteration,
                  output_file |-> session_file(global_iteration)]
    /\ attempts' = attempts + 1
    /\ session' = NoSession
    /\ ingested' = FALSE
    /\ decision' = NoDecision
    /\ post_hooks_ran' = FALSE
    /\ pc' = "wait"
    /\ UNCHANGED <<config, counter_file, shutdown, stop_file, interrupted,
                   exit_code, crashes, tracker, global_iteration,
                   iteration, consecutive_rate_limits, backoff_secs,
                   pre_hooks_log, post_hooks_log, sleeps, policy, wd>>
    /\ UNCHANGED <<decisions, outputs, bk, auxVars>>

\* Step 3: spawn the session that writes to session_file(global_iteration).
Spawn ==
    /\ pc = "spawn"
    /\ ~ShutdownRequested
    /\ status_file' = update(tracker, "session_running")
    /\ spawns' = [count |-> spawns.count + 1,
                  global_iteration |-> global_iteration,
                  output_file |-> session_file(global_iteration)]
    /\ attempts' = attempts + 1
    /\ session' = NoSession
    /\ ingested' = FALSE
    /\ decision' = NoDecision
    /\ post_hooks_ran' = FALSE
    /\ pc' = "wait"
    /\ UNCHANGED <<config, counter_file, shutdown, stop_file, interrupted,
                   exit_code, crashes, tracker, global_iteration,
                   iteration, consecutive_rate_limits, backoff_secs,
                   pre_hooks_log, post_hooks_log, sleeps, policy, wd>>
    /\ UNCHANGED <<decisions, outputs, bk, auxVars>>

\* The exit codes of a session's child: zero and non-zero.
SessionExitCodes == {0, 1}

\* Step 4: the session ends, by its own exit (with a zero or a non-zero
\* code) or killed by the watchdog (which kills only at min_output_bytes or
\* more; a signalled child has no exit code).  A rate-limit signature is
\* part of the output, so an empty output has none.
SessionEnds ==
    /\ pc = "wait"
    /\ \E b \in 0..MaxSessionBytes, rl \in BOOLEAN, o \in {"exited", "killed"},
          c \in SessionExitCodes :
         /\ rl => b > 0
         /\ o = "killed" => b >= config.min_output_bytes
         /\ session' = [outcome |-> o,
                        exit_code |-> IF o = "exited" THEN <<c>> ELSE <<>>,
                        output_bytes |-> b, rate_limited |-> rl]
         /\ status_file' = IF o = "killed" THEN update(tracker, "watchdog_kill")
                           ELSE status_file
    /\ pc' = "ingest"
    /\ UNCHANGED <<config, counter_file, shutdown, stop_file, interrupted,
                   exit_code, spawns, crashes, tracker, global_iteration,
                   iteration, consecutive_rate_limits, ingested, decision,
                   backoff_secs, attempts, post_hooks_ran, pre_hooks_log,
                   post_hooks_log, sleeps, policy, wd>>
    /\ UNCHANGED <<decisions, outputs, bk, auxVars>>

\* Step 4, shutdown: a second interrupt arrives within the grace window
\* after a first signal while the session runs; the process group of the
\* session is killed at once and the wait ends.
SecondInterrupt ==
    /\ pc = "wait"
    /\ shutdown
    /\ ~interrupted
    /\ interrupted' = TRUE
    /\ \E b \in 0..MaxSessionBytes, rl \in BOOLEAN :
         /\ rl => b > 0
         /\ session' = [outcome |-> "interrupted", exit_code |-> <<>>,
                        output_bytes |-> b, rate_limited |-> rl]
    /\ pc' = "ingest"
    /\ UNCHANGED <<config, status_file, counter_file, shutdown, stop_file,
                   exit_code, spawns, crashes, tracker, global_iteration,
                   iteration, consecutive_rate_limits, ingested, decision,
                   backoff_secs, attempts, post_hooks_ran, pre_hooks_log,
                   post_hooks_log, sleeps, policy, wd>>
    /\ UNCHANGED <<decisions, outputs, bk, auxVars>>

\* An ingestion that is left out for a session that did not exit with 0.
Ingest_OnlyAfterCleanExit ==
    /\ pc = "ingest"
    /\ ingested' = (session.exit_code = <<0>>)
    /\ pc' = IF interrupted THEN "interrupted" ELSE "ratelimit"
    /\ UNCHANGED <<config, status_file, counter_file, shutdown, stop_file,
                   interrupted, exit_code, spawns, crashes, tracker,
                   global_iteration, iteration, consecutive_rate_limits,
                   session, decision, backoff_secs, attempts,
                   post_hooks_ran, pre_hooks_log, post_hooks_log, sleeps,
                   policy, wd>>
    /\ UNCHANGED <<decisions, outputs, bk, auxVars>>

\* Step 5: ingestion of the output file, attempted for every session.  After
\* a second interrupt the process exits next.
Ingest ==
    /\ pc = "ingest"
    /\ ingested' = TRUE
    /\ pc' = IF interrupted THEN "interrupted" ELSE "ratelimit"
    /\ UNCHANGED <<config, status_file, counter_file, shutdown, stop_file,
                   interrupted, exit_code, spawns, crashes, tracker,
                   global_iteration, iteration, consecutive_rate_limits,
                   session, decision, backoff_secs, attempts,
                   post_hooks_ran, pre_hooks_log, post_hooks_log, sleeps,
                   policy, wd>>
    /\ UNCHANGED <<decisions, outputs, bk, auxVars>>

\* The exit code after a second interrupt: a non-zero code that no other
\* exit of the harness uses (its value is not stated).
InterruptExitCode == 130

\* An exit after a second interrupt with a code that failing hooks use too.
InterruptExit_SharedCode ==
    /\ pc = "interrupted"
    /\ exit_code' = <<1>>
    /\ status_file' \in {status_file, remove(status_file)}
    /\ pc' = "done"
    /\ UNCHANGED <<config, counter_file, shutdown, stop_file, interrupted,
                   spawns, crashes, tracker, global_iteration, iteration,
                   consecutive_rate_limits, session, ingested, decision,
                   backoff_secs, attempts, post_hooks_ran, pre_hooks_log,
                   post_hooks_log, sleeps, policy, wd>>
    /\ UNCHANGED <<decisions, outputs, bk, auxVars>>

\* After a second interrupt: no retry decision, no post-hooks; the process
\* exits with the distinct code.  Whether the status file is removed on
\* this exit is not stated.
InterruptExit ==
    /\ pc = "interrupted"
    /\ exit_code' = <<InterruptExitCode>>
    /\ status_file' \in {status_file, remove(status_file)}
    /\ pc' = "done"
    /\ UNCHANGED <<config, counter_file, shutdown, stop_file, interrupted,
                   spawns, crashes, tracker, global_iteration, iteration,
                   consecutive_rate_limits, session, ingested, decision,
                   backoff_secs, attempts, post_hooks_ran, pre_hooks_log,
                   post_hooks_log, sleeps, policy, wd>>
    /\ UNCHANGED <<decisions, outputs, bk, auxVars>>

\* Step 6, signature found: compute the backoff from the count so far, count
\* the session, and continue while the count is below the cap.
RateLimited ==
    /\ pc = "ratelimit"
    /\ session.rate_limited
    /\ consecutive_rate_limits + 1 < config.max_consecutive_rate_limits
    /\ backoff_secs' = ToNat(backoff_delay(U64(config.initial_delay_secs),
                                           consecutive_rate_limits,
                                           U64(config.max_delay_secs)))
    /\ consecutive_rate_limits' = consecutive_rate_limits + 1
    /\ tracker' = set_consecutive_rate_limits(tracker, consecutive_rate_limits + 1)
    /\ pc' = "retry"
    /\ UNCHANGED <<config, status_file, counter_file, shutdown, stop_file,
                   interrupted, exit_code, spawns, crashes,
                   global_iteration, iteration, session, ingested,
                   decision, attempts, post_hooks_ran, pre_hooks_log,
                   post_hooks_log, sleeps, policy, wd>>
    /\ UNCHANGED <<decisions, outputs, bk, auxVars>>

\* A cap that writes shutting_down and lets the iteration go on.
RateLimitCap_GoesOn ==
    /\ pc = "ratelimit"
    /\ session.rate_limited
    /\ consecutive_rate_limits + 1 >= config.max_consecutive_rate_limits
    /\ backoff_secs' = ToNat(backoff_delay(U64(config.initial_delay_secs),
                                           consecutive_rate_limits,
                                           U64(config.max_delay_secs)))
    /\ consecutive_rate_limits' = consecutive_rate_limits + 1
    /\ tracker' = set_consecutive_rate_limits(tracker, consecutive_rate_limits + 1)
    /\ status_file' = update(tracker', "shutting_down")
    /\ pc' = "retry"
    /\ UNCHANGED <<config, counter_file, shutdown, stop_file, interrupted,
                   exit_code, spawns, crashes, global_iteration, iteration,
                   session, ingested, decision, attempts, post_hooks_ran,
                   pre_hooks_log, post_hooks_log, sleeps, policy, wd>>
    /\ UNCHANGED <<decisions, outputs, bk, auxVars>>

\* Step 6, signature found and consecutive_rate_limits >= the cap:
\* transition to shutting_down.
RateLimitCap ==
    /\ pc = "ratelimit"
    /\ session.rate_limited
    /\ consecutive_rate_limits + 1 >= config.max_consecutive_rate_limits
    /\ backoff_secs' = ToNat(backoff_delay(U64(config.initial_delay_secs),
                                           consecutive_rate_limits,
                                           U64(config.max_delay_secs)))
    /\ consecutive_rate_limits' = consecutive_rate_limits + 1
    /\ tracker' = set_consecutive_rate_limits(tracker, consecutive_rate_limits + 1)
    /\ status_file' = update(tracker', "shutting_down")
    /\ \E c \in RateLimitExitCodes : exit_code' = <<c>>
    /\ pc' = "exiting"
    /\ UNCHANGED <<config, counter_file, shutdown, stop_file, interrupted,
                   spawns, crashes, global_iteration, iteration, session,
                   ingested, decision, attempts, post_hooks_ran,
                   pre_hooks_log, post_hooks_log, sleeps, policy, wd>>
    /\ UNCHANGED <<decisions, outputs, bk, auxVars>>

\* Step 6, no signature: the count is reset.
NotRateLimited ==
    /\ pc = "ratelimit"
    /\ ~session.rate_limited
    /\ backoff_secs' = 0
    /\ consecutive_rate_limits' = 0
    /\ tracker' = set_consecutive_rate_limits(tracker, 0)
    /\ sleeps' = <<>>
    /\ pc' = "retry"
    /\ UNCHANGED <<config, status_file, counter_file, shutdown, stop_file,
                   interrupted, exit_code, spawns, crashes,
                   global_iteration, iteration, session, ingested,
                   decision, attempts, post_hooks_ran, pre_hooks_log,
                   post_hooks_log, policy, wd>>
    /\ UNCHANGED <<decisions, outputs, bk, auxVars>>

\* A retry gate that counts every attempt as productive.
DecideRetry_Counted ==
    /\ pc = "retry"
    /\ evaluate(policy, session.output_bytes).decision.kind = "Retry"
    /\ policy' = evaluate(policy, session.output_bytes).policy
    /\ decision' = evaluate(policy, session.output_bytes).decision
    /\ iteration' = iteration + 1
    /\ tracker' = set_iteration(tracker, iteration + 1)
    /\ status_file' = update(tracker', "retrying")
    /\ pc' = "counters"
    /\ UNCHANGED <<config, counter_file, shutdown, stop_file, interrupted,
                   exit_code, spawns, crashes, global_iteration,
                   consecutive_rate_limits, session, ingested,
                   backoff_secs, attempts, post_hooks_ran, pre_hooks_log,
                   post_hooks_log, sleeps, wd>>
    /\ UNCHANGED <<decisions, outputs, bk, auxVars>>

\* Step 7, Retry: the attempt is redone; neither the productive count nor
\* the post-hooks are touched.
DecideRetry ==
    /\ pc = "retry"
    /\ evaluate(policy, session.output_bytes).decision.kind = "Retry"
    /\ policy' = evaluate(policy, session.output_bytes).policy
    /\ decision' = evaluate(policy, session.output_bytes).decision
    /\ status_file' = update(tracker, "retrying")
    /\ pc' = "counters"
    /\ UNCHANGED <<config, counter_file, shutdown, stop_file, interrupted,
                   exit_code, spawns, crashes, tracker, global_iteration,
                   iteration, consecutive_rate_limits, session, ingested,
                   backoff_secs, attempts, post_hooks_ran, pre_hooks_log,
                   post_hooks_log, sleeps, wd>>
    /\ UNCHANGED <<decisions, outputs, bk, auxVars>>

\* A retry gate that runs the post-hooks after a Skip as well.
DecideSkip_WithHooks ==
    /\ pc = "retry"
    /\ evaluate(policy, session.output_bytes).decision = Skip
    /\ policy' = evaluate(policy, session.output_bytes).policy
    /\ decision' = Skip
    /\ iteration' = iteration + 1
    /\ tracker' = set_iteration(tracker, iteration + 1)
    /\ pc' = "post_hooks"
    /\ UNCHANGED <<config, status_file, counter_file, shutdown, stop_file,
                   interrupted, exit_code, spawns, crashes,
                   global_iteration, consecutive_rate_limits, session,
                   ingested, backoff_secs, attempts, post_hooks_ran,
                   pre_hooks_log, post_hooks_log, sleeps, wd>>
    /\ UNCHANGED <<decisions, outputs, bk, auxVars>>

\* A retry gate whose Skip leaves the productive count as it is.
DecideSkip_NotCounted ==
    /\ pc = "retry"
    /\ evaluate(policy, session.output_bytes).decision = Skip
    /\ policy' = evaluate(policy, session.output_bytes).policy
    /\ decision' = Skip
    /\ pc' = "compact"
    /\ UNCHANGED <<config, status_file, counter_file, shutdown, stop_file,
                   interrupted, exit_code, spawns, crashes, tracker,
                   global_iteration, iteration, consecutive_rate_limits,
                   session, ingested, backoff_secs, attempts,
                   post_hooks_ran, pre_hooks_log, post_hooks_log, sleeps, wd>>
    /\ UNCHANGED <<decisions, outputs, bk, auxVars>>

\* Step 7, Skip: the productive count advances, no post-hooks.
DecideSkip ==
    /\ pc = "retry"
    /\ evaluate(policy, session.output_bytes).decision = Skip
    /\ policy' = evaluate(policy, session.output_bytes).policy
    /\ decision' = Skip
    /\ iteration' = iteration + 1
    /\ tracker' = set_iteration(tracker, iteration + 1)
    /\ pc' = "compact"
    /\ UNCHANGED <<config, status_file, counter_file, shutdown, stop_file,
                   interrupted, exit_code, spawns, crashes,
                   global_iteration, consecutive_rate_limits, session,
                   ingested, backoff_secs, attempts, post_hooks_ran,
                   pre_hooks_log, post_hooks_log, sleeps, wd>>
    /\ UNCHANGED <<decisions, outputs, bk, auxVars>>

\* Step 7, Proceed: the productive count advances and the post-hooks run.
DecideProceed ==
    /\ pc = "retry"
    /\ evaluate(policy, session.output_bytes).decision = Proceed
    /\ policy' = evaluate(policy, session.output_bytes).policy
    /\ decision' = Proceed
    /\ iteration' = iteration + 1
    /\ tracker' = set_iteration(tracker, iteration + 1)
    /\ pc' = "post_hooks"
    /\ UNCHANGED <<config, status_file, counter_file, shutdown, stop_file,
                   interrupted, exit_code, spawns, crashes,
                   global_iteration, consecutive_rate_limits, session,
                   ingested, backoff_secs, attempts, post_hooks_ran,
                   pre_hooks_log, post_hooks_log, sleeps, wd>>
    /\ UNCHANGED <<decisions, outputs, bk, auxVars>>

\* The exit codes the post-hooks can end with: each hook runs and exits with
\* 0 or not; whether the hooks after a failing one still run is left open.
PostHookRuns(n) ==
    {l \in UNION {[1..k -> {0} \cup HookExitCodes] : k \in 0..n} :
        Len(l) < n => (Len(l) > 0 /\ l[Len(l)] # 0)}

\* Post-hooks under the contract of the pre-hooks: a failure ends the process.
PostHooks_AbortOnFailure ==
    /\ pc = "post_hooks"
    /\ status_file' = update(tracker, "post_hooks")
    /\ post_hooks_ran' = TRUE
    /\ \E l \in PostHookRuns(config.post_session) :
         /\ post_hooks_log' = l
         /\ IF \E i \in 1..Len(l) : l[i] # 0
            THEN /\ exit_code' = <<l[Len(l)]>>
                 /\ pc' = "done"
            ELSE /\ exit_code' = exit_code
                 /\ pc' = "compact"
    /\ UNCHANGED <<config, counter_file, shutdown, stop_file, interrupted,
                   spawns, crashes, tracker, global_iteration, iteration,
                   consecutive_rate_limits, session, ingested, decision,
                   backoff_secs, attempts, pre_hooks_log, sleeps, policy, wd>>
    /\ UNCHANGED <<decisions, outputs, bk, auxVars>>

\* Step 8: the post-hooks; a failing post-hook is logged and changes nothing.
PostHooks ==
    /\ pc = "post_hooks"
    /\ status_file' = update(tracker, "post_hooks")
    /\ post_hooks_ran' = TRUE
    /\ \E l \in PostHookRuns(config.post_session) : post_hooks_log' = l
    /\ pc' = "compact"
    /\ UNCHANGED <<config, counter_file, shutdown, stop_file, interrupted,
                   exit_code, spawns, crashes, tracker, global_iteration,
                   iteration, consecutive_rate_limits, session, ingested,
                   decision, backoff_secs, attempts, pre_hooks_log, sleeps,
                   policy, wd>>
    /\ UNCHANGED <<decisions, outputs, bk, auxVars>>

\* Step 9: the compactor tick.
Compact ==
    /\ pc = "compact"
    /\ pc' = "sleep"
    /\ UNCHANGED <<config, status_file, counter_file, shutdown, stop_file,
                   interrupted, exit_code, spawns, crashes, tracker,
                   global_iteration, iteration, consecutive_rate_limits,
                   session, ingested, decision, backoff_secs, attempts,
                   post_hooks_ran, pre_hooks_log, post_hooks_log, sleeps,
                   policy, wd>>
    /\ UNCHANGED <<decisions, outputs, bk, auxVars>>

\* Step 10, after a rate-limited session: sleep for the computed backoff.
BackoffSleep ==
    /\ pc = "sleep"
    /\ session.rate_limited
    /\ status_file' = update(tracker, "rate_limited_backoff")
    /\ sleeps' = Append(sleeps, backoff_secs)
    /\ pc' = "idle"
    /\ UNCHANGED <<config, counter_file, shutdown, stop_file, interrupted,
                   exit_code, spawns, crashes, tracker, global_iteration,
                   iteration, consecutive_rate_limits, session, ingested,
                   decision, backoff_secs, attempts, post_hooks_ran,
                   pre_hooks_log, post_hooks_log, policy, wd>>
    /\ UNCHANGED <<decisions, outputs, bk, auxVars>>

\* Step 10, otherwise: no sleep.
NoSleep ==
    /\ pc = "sleep"
    /\ ~session.rate_limited
    /\ pc' = "idle"
    /\ UNCHANGED <<config, status_file, counter_file, shutdown, stop_file,
                   interrupted, exit_code, spawns, crashes, tracker,
                   global_iteration, iteration, consecutive_rate_limits,
                   session, ingested, decision, backoff_secs, attempts,
                   post_hooks_ran, pre_hooks_log, post_hooks_log, sleeps,
                   policy, wd>>
    /\ UNCHANGED <<decisions, outputs, bk, auxVars>>

\* idle, between iterations.
Idle ==
    /\ pc = "idle"
    /\ status_file' = update(tracker, "idle")
    /\ pc' = "top"
    /\ UNCHANGED <<config, counter_file, shutdown, stop_file, interrupted,
                   exit_code, spawns, crashes, tracker, global_iteration,
                   iteration, consecutive_rate_limits, session, ingested,
                   decision, backoff_secs, attempts, post_hooks_ran,
                   pre_hooks_log, post_hooks_log, sleeps, policy, wd>>
    /\ UNCHANGED <<decisions, outputs, bk, auxVars>>

\* Clean shutdown: the status file is removed (StatusTracker::remove) and
\* the process exits with exit_code.
Exit ==
    /\ pc = "exiting"
    /\ status_file' = remove(status_file)
    /\ pc' = "done"
    /\ UNCHANGED <<config, counter_file, shutdown, stop_file, interrupted,
                   exit_code, spawns, crashes, tracker, global_iteration,
                   iteration, consecutive_rate_limits, session, ingested,
                   decision, backoff_secs, attempts, post_hooks_ran,
                   pre_hooks_log, post_hooks_log, sleeps, policy, wd>>
    /\ UNCHANGED <<decisions, outputs, bk, auxVars>>

\* A first terminate / interrupt signal arrives: the handler sets the flag.
RequestShutdown ==
    /\ pc \notin {"none", "done", "crashed", "exiting", "interrupted"}
    /\ ~shutdown
    /\ shutdown' = TRUE
    /\ UNCHANGED <<config, pc, status_file, counter_file, stop_file,
                   interrupted, exit_code, spawns, crashes, tracker,
                   global_iteration, iteration, consecutive_rate_limits,
                   session, ingested, decision, backoff_secs, attempts,
                   post_hooks_ran, pre_hooks_log, post_hooks_log, sleeps,
                   policy, wd>>
    /\ UNCHANGED <<decisions, outputs, bk, auxVars>>

\* The STOP sentinel file is created at the configured path.
TouchStop ==
    /\ pc \notin {"none", "done", "crashed", "exiting", "interrupted"}
    /\ ~stop_file
    /\ stop_file' = TRUE
    /\ UNCHANGED <<config, pc, status_file, counter_file, shutdown,
                   interrupted, exit_code, spawns, crashes, tracker,
                   global_iteration, iteration, consecutive_rate_limits,
                   session, ingested, decision, backoff_secs, attempts,
                   post_hooks_ran, pre_hooks_log, post_hooks_log, sleeps,
                   policy, wd>>
    /\ UNCHANGED <<decisions, outputs, bk, auxVars>>

\* The harness process dies where it stands: its memory is lost, the files
\* stay as they are.
Crash ==
    /\ pc \notin {"none", "done", "crashed"}
    /\ crashes < MaxCrashes
    /\ crashes' = crashes + 1
    /\ pc' = "crashed"
    /\ shutdown' = FALSE
    /\ interrupted' = FALSE
    /\ exit_code' = <<>>
    /\ tracker' = StatusTracker_new(config.max_iterations, 0)
    /\ policy' = new(config.max_empty_retries, config.min_output_bytes)
    /\ global_iteration' = 0
    /\ iteration' = 0
    /\ consecutive_rate_limits' = 0
    /\ session' = NoSession
    /\ ingested' = FALSE
    /\ decision' = NoDecision
    /\ backoff_secs' = 0
    /\ attempts' = 0
    /\ post_hooks_ran' = FALSE
    /\ pre_hooks_log' = <<>>
    /\ post_hooks_log' = <<>>
    /\ sleeps' = <<>>
    /\ UNCHANGED <<config, status_file, counter_file, stop_file, spawns, wd>>
    /\ UNCHANGED <<decisions, outputs, bk, auxVars>>

\* The harness is started again on the same data directory.
Restart ==
    /\ pc = "crashed"
    /\ tracker' = StatusTracker_new(config.max_iterations, counter_file)
    /\ pc' = "start"
    /\ UNCHANGED <<config, status_file, counter_file, shutdown, stop_file,
                   interrupted, exit_code, spawns, crashes,
                   global_iteration, iteration, consecutive_rate_limits,
                   session, ingested, decision, backoff_secs, attempts,
                   post_hooks_ran, pre_hooks_log, post_hooks_log, sleeps,
                   policy, wd>>
    /\ UNCHANGED <<decisions, outputs, bk, auxVars>>

LoopStep ==
    \/ Start
    \/ LoopEnds
    \/ BeginIteration
    \/ Counters
    \/ PreHooksPass
    \/ PreHooksFail
    \/ StopBeforeSpawn
    \/ Spawn
    \/ SessionEnds
    \/ Ingest
    \/ RateLimited
    \/ RateLimitCap
    \/ NotRateLimited
    \/ DecideRetry
    \/ DecideSkip
    \/ DecideProceed
    \/ PostHooks
    \/ Compact
    \/ BackoffSleep
    \/ NoSleep
    \/ Idle
    \/ Exit

\* One run of the harness process.
Next == LoopStep \/ RequestShutdown

Spec == LoopInit /\ [][Next]_vars

\* Runs of the harness with crashes and restarts on the same data directory.
CrashNext == LoopStep \/ RequestShutdown \/ Crash \/ Restart

\* The configurations of the runs with crashes.  The iteration counter is
\* touched by no rate-limit setting and by no retry threshold, so these are
\* those of scenario S4 with the largest cap, the largest threshold, the
\* largest number of retries and the largest max_iterations.
CrashConfigs ==
    {c \in Configs : /\ c.initial_delay_secs = 1
                     /\ c.max_consecutive_rate_limits = MaxConsecutive
                     /\ c.min_output_bytes = MaxSessionBytes
                     /\ c.max_empty_retries = MaxEmptyRetries
                     /\ c.max_iterations = MaxIterations}

CrashInit == LoopInit /\ config \in CrashConfigs

SpecCrash == CrashInit /\ [][CrashNext]_vars

----------------------------------------------------------------------------
(* Claims about the iteration loop *)

\* The step that spawns a session.
SpawnStep == pc = "spawn" /\ pc' = "wait"

\* C2 (under SpecCrash): every spawn, whether a first attempt, a retry or a
\* spawn after a crash and restart, uses a global_iteration above that of
\* the latest spawn before it, hence above that of every earlier spawn; the
\* counter file is already past the number used and never goes back; and the
\* output file sessions/{N}.jsonl of the spawn is the file of no number
\* used so far.
C2_GlobalIterationNeverReused ==
    [][/\ SpawnStep =>
            /\ spawns'.count = spawns.count + 1
            /\ spawns'.global_iteration = global_iteration
            /\ spawns'.global_iteration > spawns.global_iteration
            /\ spawns'.global_iteration < counter_file
            /\ \A n \in 0..spawns.global_iteration :
                 session_file(n) # spawns'.output_file
       /\ ~SpawnStep => spawns' = spawns
       /\ counter_file' >= counter_file]_vars

\* C2 witness: the harness has crashed and been restarted, the crash left an
\* iteration number unused (more numbers handed out than sessions spawned),
\* and the session now running is a retry spawned after the restart.
C2_Witness ==
    /\ crashes >= 1
    /\ attempts >= 2
    /\ pc = "wait"
    /\ spawns.count >= 3
    /\ counter_file > spawns.count
    /\ spawns.global_iteration = counter_file - 1

\* The step that takes the retry decision of a session.
DecisionStep == pc = "retry" /\ pc' # "retry"

\* C3: the productive iteration count goes up by exactly 1 when the retry
\* decision of a session is Proceed or Skip, stays when it is Retry, changes
\* at no other step, and so never goes down.
C3_ProductiveCountFollowsDecision ==
    [][/\ iteration' >= iteration
       /\ DecisionStep =>
            /\ decision'.kind \in {"Proceed", "Skip", "Retry"}
            /\ decision'.kind \in {"Proceed", "Skip"} => iteration' = iteration + 1
            /\ decision'.kind = "Retry" => iteration' = iteration
       /\ ~DecisionStep => iteration' = iteration]_vars

\* C3 witness: the second productive iteration was completed by a Skip that
\* followed a Retry.
C3_Witness ==
    /\ iteration = 2
    /\ decision = Skip
    /\ attempts >= 2

\* C4: the post-hooks run for an attempt exactly when its retry decision is
\* Proceed (they are the next step after it); never after Retry or Skip.
C4_PostHooksIffProceed ==
    /\ post_hooks_ran => decision = Proceed
    /\ decision = Proceed => (pc = "post_hooks" \/ post_hooks_ran)
    /\ decision.kind \in {"Retry", "Skip", "None"} => pc # "post_hooks"

\* C4 witness: the post-hooks have run for an attempt that proceeded after
\* an earlier attempt of the same iteration had been retried.
C4_Witness ==
    /\ post_hooks_ran
    /\ decision = Proceed
    /\ attempts >= 2
    /\ policy.current_attempt >= 1

\* C5: the productive count, in the loop and as the status tracker and
\* the status file show it, never exceeds max_iterations; no session is
\* spawned at productive = max_iterations; from there the loop only finishes
\* the iteration and goes to shutting_down, and the process exits with 0.
C5_StopsAtMaxIterations ==
    /\ iteration <= config.max_iterations
    /\ tracker.iteration = iteration
    /\ tracker.max_iterations = config.max_iterations
    /\ status_file # NoFile => status_file.iteration <= status_file.max_iterations
    /\ pc \in {"spawn", "wait"} => iteration < config.max_iterations
    /\ iteration = config.max_iterations =>
         /\ pc \in {"start", "post_hooks", "compact", "sleep", "idle", "top",
                    "exiting", "done"}
         /\ pc \in {"exiting", "done"} => exit_code = <<0>>
         /\ pc = "exiting" => status_file.state = "shutting_down"

\* C5 witness: the process has exited with code 0 after max_iterations > 1
\* productive iterations, the last of them after a rate-limited session.
C5_Witness ==
    /\ pc = "done"
    /\ config.max_iterations = 2
    /\ iteration = config.max_iterations
    /\ session.rate_limited
    /\ exit_code = <<0>>

\* C6: current_attempt is 0 when a productive iteration starts, so an
\* iteration spawns at most max_retries + 1 sessions, and exactly that many
\* when it ends in Skip (every output below min_output_bytes), whatever
\* retries earlier iterations used.
C6_AttemptsPerIteration ==
    /\ (pc \in {"counters", "pre_hooks", "spawn"} /\ attempts = 0)
          => policy.current_attempt = 0
    /\ attempts <= config.max_empty_retries + 1
    /\ decision = Skip => attempts = config.max_empty_retries + 1
    /\ policy.current_attempt <= attempts

\* C6 witness: with max_retries = 2 the first iteration ended in Proceed
\* after one retry, and the second iteration was skipped after 3 spawns.
C6_Witness ==
    /\ config.max_empty_retries = 2
    /\ iteration = 2
    /\ decision = Skip
    /\ attempts = 3
    /\ spawns.count = 5

\* The step that scans the output of the session for a rate-limit signature.
ScanStep == pc = "ratelimit" /\ pc' # "ratelimit"

\* How the consecutive rate-limit count moves: up by one at the scan of a
\* rate-limited session, to 0 at the scan of any other session, and the
\* status tracker is given the new count.
CountFollowsScan ==
    [][/\ ScanStep =>
            /\ session.rate_limited =>
                 consecutive_rate_limits' = consecutive_rate_limits + 1
            /\ ~session.rate_limited => consecutive_rate_limits' = 0
            /\ tracker'.consecutive_rate_limits = consecutive_rate_limits'
       /\ ~ScanStep => consecutive_rate_limits' = consecutive_rate_limits]_vars

\* The loop is in shutting_down (or has exited from it).
ShuttingDown ==
    /\ pc \in {"exiting", "done"}
    /\ pc = "exiting" => /\ status_file.state = "shutting_down"
                         /\ status_file.consecutive_rate_limits
                               = consecutive_rate_limits

\* C10 as stated: the count goes up by one after each rate-limited session,
\* back to 0 after any other session, never exceeds
\* max_consecutive_rate_limits, and the loop is in shutting_down as soon as
\* the count has reached max_consecutive_rate_limits.
C10_Original ==
    /\ CountFollowsScan
    /\ [](consecutive_rate_limits <= config.max_consecutive_rate_limits)
    /\ []((consecutive_rate_limits > 0
            /\ consecutive_rate_limits >= config.max_consecutive_rate_limits)
              => ShuttingDown)

\* C10 as amended: as stated, except that the count never exceeds
\* max_consecutive_rate_limits only when that is at least 1; with
\* max_consecutive_rate_limits = 0 the first rate-limited session takes the
\* count to 1, above the cap, and the loop shuts down there.
C10_CountCappedForPositiveCap ==
    /\ CountFollowsScan
    /\ [](/\ config.max_consecutive_rate_limits >= 1 =>
              consecutive_rate_limits <= config.max_consecutive_rate_limits
          /\ config.max_consecutive_rate_limits = 0 =>
              consecutive_rate_limits <= 1)
    /\ []((consecutive_rate_limits > 0
            /\ consecutive_rate_limits >= config.max_consecutive_rate_limits)
              => ShuttingDown)

\* C10 witness: two rate-limited sessions in a row reached a cap of 2 and
\* the loop is shutting down with that count in the status file.
C10_Witness ==
    /\ config.max_consecutive_rate_limits = 2
    /\ consecutive_rate_limits = 2
    /\ pc = "exiting"
    /\ status_file.state = "shutting_down"
    /\ status_file.consecutive_rate_limits = 2

----------------------------------------------------------------------------
(* Scenario S4 of the specification: rate-limited backoff. *)

\* initial_delay = 1 s, max_delay = 8 s, max_consecutive_rate_limits = 3, and
\* enough iterations for three sessions.
S4Configs ==
    {[max_iterations |-> mi, max_empty_retries |-> mr, min_output_bytes |-> mb,
      max_consecutive_rate_limits |-> 3,
      initial_delay_secs |-> 1, max_delay_secs |-> 8,
      pre_session |-> 1, post_session |-> 0] :
        mi \in {3, 4}, mr \in {0, 1}, mb \in 0..MaxSessionBytes}

S4Init == config \in S4Configs /\ FreshLoop

SpecS4 == S4Init /\ [][Next]_vars

----------------------------------------------------------------------------
(* The loop with any number of pre-session and post-session hooks. *)

\* HooksConfig: pre_session and post_session hold 0..MaxHooks commands each;
\* two iterations, one retry, a rate-limit cap of 2.
HookConfigs ==
    {[max_iterations |-> 2, max_empty_retries |-> 1, min_output_bytes |-> 1,
      max_consecutive_rate_limits |-> 2,
      initial_delay_secs |-> 1, max_delay_secs |-> 8,
      pre_session |-> pre, post_session |-> post] :
        pre \in 0..MaxHooks, post \in 0..MaxHooks}

HooksInit == config \in HookConfigs /\ FreshLoop

SpecHooks == HooksInit /\ [][Next]_vars

----------------------------------------------------------------------------
(* The loop with both phases of the shutdown and the STOP sentinel file. *)

\* Two iterations, one retry, a rate-limit cap of 2, one pre-session and one
\* post-session hook.
ShutdownConfigs ==
    {[max_iterations |-> 2, max_empty_retries |-> 1, min_output_bytes |-> 1,
      max_consecutive_rate_limits |-> 2,
      initial_delay_secs |-> 1, max_delay_secs |-> 8,
      pre_session |-> 1, post_session |-> 1]}

ShutdownInit == config \in ShutdownConfigs /\ FreshLoop

ShutdownNext ==
    \/ LoopStep
    \/ RequestShutdown
    \/ TouchStop
    \/ SecondInterrupt
    \/ InterruptExit

SpecShutdown == ShutdownInit /\ [][ShutdownNext]_vars

\* The loop always takes its next step; a running session need not ever end,
\* and nothing is assumed of the time the scan of its output takes.
SpecShutdownFair ==
    /\ SpecShutdown
    /\ WF_vars(pc \notin {"wait", "ratelimit"} /\ LoopStep)
    /\ WF_vars(InterruptExit)

----------------------------------------------------------------------------
(* Claims about scenario S4 *)

\* Every session spawned so far was rate-limited (the count, which any other
\* session resets to 0, equals the number of sessions scanned).
AllRateLimited ==
    IF pc \in {"wait", "ingest", "ratelimit"}
    THEN consecutive_rate_limits = spawns.count - 1
    ELSE consecutive_rate_limits = spawns.count

\* The loop has left scenario S4 through the rate-limit cap after exactly
\* three sessions, all of them rate-limited.
S4CapExit ==
    /\ pc \in {"exiting", "done"}
    /\ consecutive_rate_limits = 3
    /\ spawns.count = 3

\* What scenario S4 does apart from the sleeps: while every session is
\* rate-limited there is no fourth session, the third rate-limited session
\* takes the loop to shutting_down, and a process that exits for no other
\* reason (a shutdown request, a failing pre-hook) has run three sessions.
S4ThreeSessions ==
    /\ AllRateLimited => spawns.count <= 3
    /\ consecutive_rate_limits >= 3 =>
         consecutive_rate_limits = 3 /\ pc \in {"exiting", "done"}
    /\ (pc = "done" /\ AllRateLimited /\ ~shutdown /\ status_file = NoFile)
          => S4CapExit

----------------------------------------------------------------------------
(* Claims about the hooks *)

\* The latest run of the pre-hooks ended with a failing hook.
PreHookFailed ==
    pre_hooks_log # <<>> /\ pre_hooks_log[Len(pre_hooks_log)] # 0

\* C19 (under SpecHooks): the pre-hooks run in order up to the first one that
\* exits with a non-zero code; the hooks after it are not run, no session of
\* that iteration is spawned, and the process exits with exactly that code.
C19_PreHookFailureExitsWithItsCode ==
    /\ Len(pre_hooks_log) <= config.pre_session
    /\ \A i \in 1..(Len(pre_hooks_log) - 1) : pre_hooks_log[i] = 0
    /\ PreHookFailed =>
         /\ pc = "done"
         /\ exit_code = <<pre_hooks_log[Len(pre_hooks_log)]>>
         /\ attempts = 0
         /\ session = NoSession
    /\ (pc \in {"spawn", "wait"} /\ attempts = 0) =>
         /\ Len(pre_hooks_log) = config.pre_session
         /\ ~PreHookFailed

\* C19 witness: in the second iteration the first of two pre-hooks exited
\* with 2; the second hook did not run and the process exited with 2.
C19_Witness ==
    /\ config.pre_session = 2
    /\ pre_hooks_log = <<2>>
    /\ iteration = 1
    /\ pc = "done"
    /\ exit_code = <<2>>

\* The latest run of the post-hooks had a failing hook.
PostHookFailed ==
    \E i \in 1..Len(post_hooks_log) : post_hooks_log[i] # 0

\* The step that runs the post-hooks.
PostHooksStep == pc = "post_hooks" /\ pc' # "post_hooks"

\* C20 (under SpecHooks): whatever the post-hooks exit with, the step after
\* them is the compactor tick and nothing of the loop's state depends on
\* their exit codes; after a failing post-hook the iteration completes, the
\* process does not exit because of it, and at the loop head the next
\* iteration starts under the usual condition.
C20_PostHookFailureDoesNotStopLoop ==
    /\ [][PostHooksStep =>
            /\ pc' = "compact"
            /\ post_hooks_ran'
            /\ UNCHANGED <<exit_code, iteration, policy, tracker, counter_file,
                           consecutive_rate_limits, session, decision,
                           backoff_secs, shutdown, spawns, attempts, sleeps>>]_vars
    /\ []((PostHookFailed /\ post_hooks_ran) =>
            /\ pc \in {"compact", "sleep", "idle", "top", "exiting", "done"}
            /\ pc \in {"exiting", "done"} =>
                 /\ exit_code = <<0>>
                 /\ shutdown \/ iteration >= config.max_iterations
            /\ (pc = "top" /\ ~shutdown /\ iteration < config.max_iterations)
                 => ENABLED BeginIteration)

\* C20 witness: the session of the second iteration is running after a
\* post-hook of the first iteration exited with a non-zero code.
C20_Witness ==
    /\ PostHookFailed
    /\ iteration = 1
    /\ pc = "wait"
    /\ exit_code = <<>>

----------------------------------------------------------------------------
(* Claims about ingestion and shutdown *)

CapReached == consecutive_rate_limits >= config.max_consecutive_rate_limits

\* The step at which a first signal arrives.
FirstSignalStep == ~shutdown /\ shutdown'

SecondInterruptStep == ~interrupted /\ interrupted'

CheckStep == pc \in {"top", "counters", "spawn"} /\ pc' # pc

\* The step of the running iteration that is due can be taken (the scan for
\* the rate-limit signature, between ingestion and the retry decision, has
\* no condition but its position).
IterationGoesOn ==
    /\ pc = "wait" => ENABLED SessionEnds
    /\ pc = "ingest" => ENABLED Ingest
    /\ pc = "retry" => ENABLED (DecideRetry \/ DecideSkip \/ DecideProceed)
    /\ pc = "post_hooks" => ENABLED PostHooks
    /\ pc = "compact" => ENABLED Compact
    /\ pc = "sleep" => ENABLED (BackoffSleep \/ NoSleep)
    /\ pc = "idle" => ENABLED Idle

----------------------------------------------------------------------------
(* The session wait in steps: the child, its output file, the watchdog   *)
(* (spec 4.4) and the second interrupt (spec 4.8).  Time is counted in    *)
(* units of the watchdog's settings; the counters stop one past the       *)
(* value they are compared with.                                           *)

\* Ord::min on the naturals of the model.
Least(a, b) == IF a <= b THEN a ELSE b

\* What stat reports for the output file: its length, 0 when it does not
\* exist.
stat_len(w) == IF w.exists THEN w.len ELSE 0

\* A tick that kills after stale_timeout without looking at the length.
Observe_IgnoresMinBytes(w, size, min_output_bytes) ==
    LET grew == size > w.prev_len
        started == w.started \/ grew \/ size > min_output_bytes
        stall == IF grew THEN 0 ELSE w.stall
        kill == started /\ stall > w.stale_timeout
    IN [w EXCEPT !.prev_len = size, !.started = started, !.stall = stall,
                 !.since_tick = 0, !.signals = IF kill THEN 1 ELSE 0]

\* A tick that resets the last-growth timestamp whether the file grew or not.
Observe_AlwaysResets(w, size, min_output_bytes) ==
    LET grew == size > w.prev_len
        started == w.started \/ grew \/ size > min_output_bytes
        stall == 0
        kill == started /\ stall > w.stale_timeout /\ size >= min_output_bytes
    IN [w EXCEPT !.prev_len = size, !.started = started, !.stall = stall,
                 !.since_tick = 0, !.signals = IF kill THEN 1 ELSE 0]

\* One tick of the watchdog on a file of the given size: growth since the
\* previous tick resets the last-growth timestamp; a stall clock that did
\* not start with the watchdog, the file not being there, starts at the first
\* growth (or once min_output_bytes is exceeded); the process group
\* gets the terminating signal when the stall exceeds stale_timeout and the
\* length is at least min_output_bytes.
Observe(w, size, min_output_bytes) ==
    LET grew == size > w.prev_len
        started == w.started \/ grew \/ size > min_output_bytes
        stall == IF grew THEN 0 ELSE w.stall
        kill == started /\ stall > w.stale_timeout /\ size >= min_output_bytes
    IN [w EXCEPT !.prev_len = size, !.started = started, !.stall = stall,
                 !.since_tick = 0, !.signals = IF kill THEN 1 ELSE 0]

\* The watchdog starts on the path of the session's output, before or after
\* spawn_agent has created the file; the stall clock starts with it when the
\* file exists.
StartWatch ==
    /\ pc = "wait"
    /\ wd.phase = "idle"
    /\ wd' = [wd EXCEPT !.phase = "watching", !.started = wd.exists,
                        !.prev_len = 0, !.stall = 0, !.since_tick = 0]
    /\ UNCHANGED <<config, pc, status_file, counter_file, shutdown,
                   stop_file, interrupted, exit_code, spawns, crashes,
                   tracker, global_iteration, iteration,
                   consecutive_rate_limits, session, ingested, decision,
                   backoff_secs, attempts, post_hooks_ran, pre_hooks_log,
                   post_hooks_log, sleeps, policy>>
    /\ UNCHANGED <<decisions, outputs, bk, auxVars>>

\* spawn_agent: the output file is created empty and the child starts in a
\* process group of its own.
SpawnAgent ==
    /\ pc = "wait"
    /\ wd.phase # "returned"
    /\ wd.child = "none"
    /\ wd' = [wd EXCEPT !.exists = TRUE, !.len = 0, !.child = "running",
                        !.since_write = 0]
    /\ UNCHANGED <<config, pc, status_file, counter_file, shutdown,
                   stop_file, interrupted, exit_code, spawns, crashes,
                   tracker, global_iteration, iteration,
                   consecutive_rate_limits, session, ingested, decision,
                   backoff_secs, attempts, post_hooks_ran, pre_hooks_log,
                   post_hooks_log, sleeps, policy>>
    /\ UNCHANGED <<decisions, outputs, bk, auxVars>>

\* The child appends to its output.
ChildWrites ==
    /\ pc = "wait"
    /\ wd.child = "running"
    /\ wd.len < MaxWatchBytes
    /\ wd' = [wd EXCEPT !.len = wd.len + 1, !.since_write = 0]
    /\ UNCHANGED <<config, pc, status_file, counter_file, shutdown,
                   stop_file, interrupted, exit_code, spawns, crashes,
                   tracker, global_iteration, iteration,
                   consecutive_rate_limits, session, ingested, decision,
                   backoff_secs, attempts, post_hooks_ran, pre_hooks_log,
                   post_hooks_log, sleeps, policy>>
    /\ UNCHANGED <<decisions, outputs, bk, auxVars>>

\* The child exits by itself.
ChildExits ==
    /\ pc = "wait"
    /\ wd.child = "running"
    /\ \E c \in SessionExitCodes :
         wd' = [wd EXCEPT !.child = "exited", !.child_code = <<c>>]
    /\ UNCHANGED <<config, pc, status_file, counter_file, shutdown,
                   stop_file, interrupted, exit_code, spawns, crashes,
                   tracker, global_iteration, iteration,
                   consecutive_rate_limits, session, ingested, decision,
                   backoff_secs, attempts, post_hooks_ran, pre_hooks_log,
                   post_hooks_log, sleeps, policy>>
    /\ UNCHANGED <<decisions, outputs, bk, auxVars>>

\* The child dies of the terminating signal.
ChildDies ==
    /\ pc = "wait"
    /\ wd.child = "running"
    /\ wd.signals >= 1
    /\ wd' = [wd EXCEPT !.child = "exited", !.child_code = <<>>]
    /\ UNCHANGED <<config, pc, status_file, counter_file, shutdown,
                   stop_file, interrupted, exit_code, spawns, crashes,
                   tracker, global_iteration, iteration,
                   consecutive_rate_limits, session, ingested, decision,
                   backoff_secs, attempts, post_hooks_ran, pre_hooks_log,
                   post_hooks_log, sleeps, policy>>
    /\ UNCHANGED <<decisions, outputs, bk, auxVars>>

\* One unit of time passes, up to the next tick that is due.
Advance ==
    /\ pc = "wait"
    /\ wd.since_tick < wd.check_interval
    /\ wd' = [wd EXCEPT
                !.since_tick = wd.since_tick + 1,
                !.stall = IF wd.started
                          THEN Least(wd.stall + 1, wd.stale_timeout + 1)
                          ELSE wd.stall,
                !.since_write = IF wd.child = "none" THEN 0
                                ELSE Least(wd.since_write + 1,
                                           wd.stale_timeout + 1)]
    /\ UNCHANGED <<config, pc, status_file, counter_file, shutdown,
                   stop_file, interrupted, exit_code, spawns, crashes,
                   tracker, global_iteration, iteration,
                   consecutive_rate_limits, session, ingested, decision,
                   backoff_secs, attempts, post_hooks_ran, pre_hooks_log,
                   post_hooks_log, sleeps, policy>>
    /\ UNCHANGED <<decisions, outputs, bk, auxVars>>

\* Every check_interval the watchdog stats the output file, until it is
\* cancelled.
Tick ==
    /\ wd.phase = "watching"
    /\ wd.since_tick = wd.check_interval
    /\ wd.signals = 0
    /\ ~interrupted
    /\ wd' = Observe(wd, stat_len(wd), config.min_output_bytes)
    /\ UNCHANGED <<config, pc, status_file, counter_file, shutdown,
                   stop_file, interrupted, exit_code, spawns, crashes,
                   tracker, global_iteration, iteration,
                   consecutive_rate_limits, session, ingested, decision,
                   backoff_secs, attempts, post_hooks_ran, pre_hooks_log,
                   post_hooks_log, sleeps, policy>>
    /\ UNCHANGED <<decisions, outputs, bk, auxVars>>

\* After the brief wait the watchdog force-kills the group if the child is
\* still alive, and reports Killed.
ForceKill ==
    /\ wd.phase = "watching"
    /\ wd.signals = 1
    /\ wd.report = "StillRunning"
    /\ wd' = IF wd.child = "running"
             THEN [wd EXCEPT !.signals = 2, !.child = "exited",
                             !.child_code = <<>>, !.report = "Killed"]
             ELSE [wd EXCEPT !.report = "Killed"]
    /\ UNCHANGED <<config, pc, status_file, counter_file, shutdown,
                   stop_file, interrupted, exit_code, spawns, crashes,
                   tracker, global_iteration, iteration,
                   consecutive_rate_limits, session, ingested, decision,
                   backoff_secs, attempts, post_hooks_ran, pre_hooks_log,
                   post_hooks_log, sleeps, policy>>
    /\ UNCHANGED <<decisions, outputs, bk, auxVars>>

\* A second interrupt after a first signal: the process group of the
\* session is killed at once.
InterruptKill ==
    /\ pc = "wait"
    /\ wd.child # "none"
    /\ shutdown
    /\ ~interrupted
    /\ interrupted' = TRUE
    /\ wd' = IF wd.child = "running"
             THEN [wd EXCEPT !.child = "exited", !.child_code = <<>>]
             ELSE wd
    /\ UNCHANGED <<config, pc, status_file, counter_file, shutdown,
                   stop_file, exit_code, spawns, crashes, tracker,
                   global_iteration, iteration, consecutive_rate_limits,
                   session, ingested, decision, backoff_secs, attempts,
                   post_hooks_ran, pre_hooks_log, post_hooks_log, sleeps,
                   policy>>
    /\ UNCHANGED <<decisions, outputs, bk, auxVars>>

\* finish_session: the result holds the exit code, if any, and the length
\* of the output file.
finish_session(code, w) ==
    [exit_code |-> code, output_bytes |-> stat_len(w)]

\* A wait that ends without cancelling the watchdog.
Cancelled_KeepsWatching(w) == w

\* The watchdog is cancelled when the wait ends: what it has recorded of the
\* file is dropped, what it has sent and reported stays.
Cancelled(w) ==
    [w EXCEPT !.phase = "returned", !.prev_len = 0, !.started = FALSE,
              !.stall = 0, !.since_tick = 0, !.since_write = 0]

\* A wait that returns as soon as the watchdog has sent its first signal.
WaitReturns_BeforeChildExit ==
    /\ pc = "wait"
    /\ wd.phase = "watching"
    /\ wd.child = "exited" \/ wd.signals >= 1
    /\ \E rl \in BOOLEAN :
         LET r == finish_session(wd.child_code, wd)
             o == IF interrupted THEN "interrupted"
                  ELSE IF wd.signals >= 1 THEN "killed" ELSE "exited"
         IN /\ rl => r.output_bytes > 0
            /\ session' = [outcome |-> o, exit_code |-> r.exit_code,
                           output_bytes |-> r.output_bytes,
                           rate_limited |-> rl]
            /\ status_file' = IF o = "killed"
                              THEN update(tracker, "watchdog_kill")
                              ELSE status_file
    /\ wd' = Cancelled(wd)
    /\ pc' = "ingest"
    /\ UNCHANGED <<config, counter_file, shutdown, stop_file, interrupted,
                   exit_code, spawns, crashes, tracker, global_iteration,
                   iteration, consecutive_rate_limits, ingested, decision,
                   backoff_secs, attempts, post_hooks_ran, pre_hooks_log,
                   post_hooks_log, sleeps, policy>>
    /\ UNCHANGED <<decisions, outputs, bk, auxVars>>

\* Step 4 ends: the child has exited (and a watchdog that has signalled the
\* group has reported); the runner returns the session's result to the loop.
WaitReturns ==
    /\ pc = "wait"
    /\ wd.phase = "watching"
    /\ wd.child = "exited"
    /\ wd.signals >= 1 => wd.report = "Killed"
    /\ \E rl \in BOOLEAN :
         LET r == finish_session(wd.child_code, wd)
             o == IF interrupted THEN "interrupted"
                  ELSE IF wd.report = "Killed" THEN "killed" ELSE "exited"
         IN /\ rl => r.output_bytes > 0
            /\ session' = [outcome |-> o, exit_code |-> r.exit_code,
                           output_bytes |-> r.output_bytes,
                           rate_limited |-> rl]
            /\ status_file' = IF o = "killed"
                              THEN update(tracker, "watchdog_kill")
                              ELSE status_file
    /\ wd' = Cancelled(wd)
    /\ pc' = "ingest"
    /\ UNCHANGED <<config, counter_file, shutdown, stop_file, interrupted,
                   exit_code, spawns, crashes, tracker, global_iteration,
                   iteration, consecutive_rate_limits, ingested, decision,
                   backoff_secs, attempts, post_hooks_ran, pre_hooks_log,
                   post_hooks_log, sleeps, policy>>
    /\ UNCHANGED <<decisions, outputs, bk, auxVars>>

\* One iteration with a watched session, from a fresh start to the
\* ingestion of the session's output.
WatchConfigs ==
    {[max_iterations |-> 1, max_empty_retries |-> 0, min_output_bytes |-> mb,
      max_consecutive_rate_limits |-> 2,
      initial_delay_secs |-> 1, max_delay_secs |-> 8,
      pre_session |-> 0, post_session |-> 0] : mb \in 0..MaxWatchBytes}

WatchInit ==
    /\ config \in WatchConfigs
    /\ FreshRun
    /\ \E ci \in 1..MaxCheckInterval, st \in 1..MaxStaleTimeout :
         wd = Watchdog_new(ci, st)

\* The loop's steps up to the ingestion.
WatchLoopStep ==
    \/ Start
    \/ LoopEnds
    \/ BeginIteration
    \/ Counters
    \/ PreHooksPass
    \/ StopBeforeSpawn
    \/ Spawn
    \/ StartWatch
    \/ WaitReturns
    \/ Ingest
    \/ InterruptExit
    \/ Exit

\* The watchdog's own steps.
WatchdogStep == Tick \/ ForceKill

\* The child, the clock and the operator.
WatchEnvironment ==
    \/ SpawnAgent
    \/ ChildWrites
    \/ ChildExits
    \/ ChildDies
    \/ Advance
    \/ RequestShutdown
    \/ InterruptKill

WatchNext == WatchLoopStep \/ WatchdogStep \/ WatchEnvironment

SpecWatchdog == WatchInit /\ [][WatchNext]_vars

\* Time passes, the watchdog's timer and its kill run, and the loop takes
\* its steps; nothing is assumed of the child.
SpecWatchdogFair ==
    /\ SpecWatchdog
    /\ WF_vars(Advance)
    /\ WF_vars(WatchdogStep)
    /\ WF_vars(WatchLoopStep)


----------------------------------------------------------------------------
(* Claims about the watchdog and the session wait *)

\* The step at which the watchdog sends its first signal to the group.
KillStep == wd.signals = 0 /\ wd'.signals = 1

Stalled ==
    /\ pc = "wait"
    /\ wd.phase = "watching"
    /\ wd.child = "running"
    /\ wd.since_write > wd.stale_timeout

----------------------------------------------------------------------------
(* src/src/status.rs: StatusFile::write against a reader of the status    *)
(* path.  A directory maps the two names to inodes (0: no entry); a file   *)
(* is the sequence of the pieces written to its inode so far.              *)

\* The StatusData values that are written.
StatusDocs == {"a", "b"}

\* serde_json::to_string_pretty: the document of a StatusData, in the pieces
\* in which it may reach the file.
to_string_pretty(data) == <<"{", data, "}">>

\* serde_json::from_str succeeds: the content is a whole document.
from_str_ok(content) ==
    /\ Len(content) = 3
    /\ content[1] = "{"
    /\ content[3] = "}"

\* What opening a name that has no entry gives.
NotFound == <<"ENOENT">>

\* The content behind a name.
file_at(s, name) ==
    IF s.names[name] = 0 THEN NotFound ELSE s.files[s.names[name]]

\* A temp path that is the status path itself.
tmp_path_InPlace == "path"

\* tmp_path: .harness.status.tmp.<pid> in the directory of the status path.
tmp_path == "tmp"

\* A fresh directory: neither name exists.
NewStatusFile == [NoStatusWrite EXCEPT !.wpc = "idle"]

\* An update that hands the error of the write on: the caller stops.
update_returns_Propagates(wpc) == wpc \in {"idle", "ok"}

\* StatusTracker::update has returned, or was never called: it logs an Err
\* of the write and returns like after an Ok, so the caller goes on.
update_returns(wpc) == wpc \in {"idle", "ok", "err"}

\* StatusFile::write is called: the data is serialized.
BeginWrite ==
    /\ update_returns(sw.wpc)
    /\ sw.writes < MaxStatusWrites
    /\ \E d \in StatusDocs :
         sw' = [sw EXCEPT !.wpc = "create", !.data = d,
                          !.before = file_at(sw, "path"),
                          !.writes = sw.writes + 1]
    /\ UNCHANGED <<policy, decisions, outputs, bk, loopVars, ig, ex, cz, oc, ad>>

\* std::fs::write opens the temp path: a new empty file, or the old one
\* truncated.
CreateTmp ==
    /\ sw.wpc = "create"
    /\ sw' = IF sw.names[tmp_path] = 0
             THEN [sw EXCEPT !.files = Append(sw.files, <<>>),
                             !.names[tmp_path] = Len(sw.files) + 1,
                             !.wpc = "write"]
             ELSE [sw EXCEPT !.files[sw.names[tmp_path]] = <<>>,
                             !.wpc = "write"]
    /\ UNCHANGED <<policy, decisions, outputs, bk, loopVars, ig, ex, cz, oc, ad>>

\* std::fs::write writes the next pieces of the document.
WriteChunk ==
    /\ sw.wpc = "write"
    /\ LET json == to_string_pretty(sw.data)
           f == sw.names[tmp_path]
           done == Len(sw.files[f])
       IN \E upto \in (done + 1)..Len(json) :
            sw' = [sw EXCEPT !.files[f] = SubSeq(json, 1, upto),
                             !.wpc = IF upto = Len(json) THEN "rename"
                                     ELSE "write"]
    /\ UNCHANGED <<policy, decisions, outputs, bk, loopVars, ig, ex, cz, oc, ad>>

\* std::fs::write fails (StatusError::Write): what it wrote stays.
WriteFails ==
    /\ sw.wpc \in {"create", "write"}
    /\ sw' = [sw EXCEPT !.wpc = "err"]
    /\ UNCHANGED <<policy, decisions, outputs, bk, loopVars, ig, ex, cz, oc, ad>>

\* std::fs::rename: the second name takes the inode of the first, which is
\* gone, in one step.
rename(names, from, to) ==
    IF from = to THEN names
    ELSE [names EXCEPT ![to] = names[from], ![from] = 0]

\* The temp file is renamed into place and write returns Ok.
Rename ==
    /\ sw.wpc = "rename"
    /\ sw' = [sw EXCEPT !.names = rename(sw.names, tmp_path, "path"),
                        !.wpc = "ok"]
    /\ UNCHANGED <<policy, decisions, outputs, bk, loopVars, ig, ex, cz, oc, ad>>

\* std::fs::rename fails (StatusError::Rename).
RenameFails ==
    /\ sw.wpc = "rename"
    /\ sw' = [sw EXCEPT !.wpc = "err"]
    /\ UNCHANGED <<policy, decisions, outputs, bk, loopVars, ig, ex, cz, oc, ad>>

\* A reader opens the status path.
ReaderOpen ==
    /\ sw.wpc # "none"
    /\ sw.rfd = 0
    /\ Len(sw.robs) < MaxReads
    /\ sw' = IF sw.names["path"] = 0
             THEN [sw EXCEPT !.robs = Append(sw.robs, NotFound)]
             ELSE [sw EXCEPT !.rfd = sw.names["path"],
                             !.ropen = file_at(sw, "path")]
    /\ UNCHANGED <<policy, decisions, outputs, bk, loopVars, ig, ex, cz, oc, ad>>

\* The reader reads the file it has opened.
ReaderRead ==
    /\ sw.rfd # 0
    /\ sw' = [sw EXCEPT !.robs = Append(sw.robs, sw.files[sw.rfd]),
                        !.rfd = 0]
    /\ UNCHANGED <<policy, decisions, outputs, bk, loopVars, ig, ex, cz, oc, ad>>

StatusWriteInit ==
    /\ NoLoop
    /\ NoBackoff
    /\ NoRetryHistory
    /\ policy = new(0, 0)
    /\ sw = NewStatusFile
    /\ ig = NoIngestion
    /\ ex = NoRules
    /\ cz = NoCompression
    /\ oc = NoParse
    /\ ad = NoAider

StatusWriteNext ==
    \/ BeginWrite
    \/ CreateTmp
    \/ WriteChunk
    \/ WriteFails
    \/ Rename
    \/ RenameFails
    \/ ReaderOpen
    \/ ReaderRead

SpecStatusWrite == StatusWriteInit /\ [][StatusWriteNext]_vars


----------------------------------------------------------------------------
(* Claims about StatusFile::write *)

\* A write has begun and has not returned.
Writing == sw.wpc \in {"create", "write", "rename"}

\* The step at which the reader gets the content of the file it opened.
ReadStep == sw.rfd # 0 /\ sw'.rfd = 0

\* C21 (under SpecStatusWrite): at every point of a write the status path
\* holds what it held when the write began (no entry, or a whole document)
\* or, once write has returned Ok, the whole new document; a reader gets
\* what the path held when it opened it, and everything it ever observes is
\* a missing file or a whole document; and after a write that returned Ok
\* the temp name is gone.
C21_ReadersSeeWholeDocuments ==
    /\ [](LET c == file_at(sw, "path")
          IN /\ c = NotFound \/ from_str_ok(c)
             /\ Writing => c = sw.before
             /\ sw.wpc = "err" => c = sw.before
             /\ sw.wpc = "ok" => c = to_string_pretty(sw.data))
    /\ [](\A i \in 1..Len(sw.robs) :
            sw.robs[i] = NotFound \/ from_str_ok(sw.robs[i]))
    /\ [][ReadStep => sw'.robs[Len(sw'.robs)] = sw.ropen]_vars
    /\ [](sw.wpc = "ok" => sw.names[tmp_path] = 0)

\* C21 witness: a reader opened the status path before a second write began
\* and read it while that write had written a part of the new document to
\* the temp file: it observed the whole previous document.
C21_Witness ==
    /\ sw.writes = 2
    /\ sw.wpc = "write"
    /\ Len(file_at(sw, tmp_path)) = 1
    /\ sw.before = to_string_pretty("a")
    /\ sw.data = "b"
    /\ sw.robs = <<sw.before>>


\* ---------------------------------------------------------------------------
\* Ingestion (ingest.rs, db.rs): ingest_session_with_rules writes the events
\* of one session and upserts its observation row.  Every database write is
\* a statement of its own: the function opens no transaction, and each write
\* may fail.  The clock moves between the statements.
\* ---------------------------------------------------------------------------

\* Ticks of the clock in one second: the timestamp format keeps whole seconds.
TicksPerSecond == 2

\* chrono::Utc::now().format("%Y-%m-%dT%H:%M:%SZ"): the clock cut to seconds.
format_ts(t) == t \div TicksPerSecond

Sessions == {1, 2}

\* The exit code handed to the call: None or Some(code).
ExitCodeArgs == {<<>>, <<1>>}

\* JSON values: numbers and strings are kept apart, as serde_json does.
Number(n) == [t |-> "number", n |-> n]
String(s) == [t |-> "string", s |-> s]

\* The numbers the metrics of the model take.
JsonNumbers == {0, 1, 7, 2000}

\* What extract_builtin_metrics returns: an error, or the (kind, value) list
\* (the opencode adapter can report session.exit_code itself).
AdapterResults ==
    { [ok |-> FALSE, metrics |-> <<>>],
      [ok |-> TRUE, metrics |-> <<>>],
      [ok |-> TRUE, metrics |-> <<[kind |-> "session.duration_ms", value |-> Number(2000)],
                                 [kind |-> "session.exit_code", value |-> Number(0)]>>] }

\* What apply_rules_via_adapter returns: an error (a source's lines cannot be
\* read), or the (kind, value) pairs of the rules that emitted.
RuleResults ==
    { [ok |-> FALSE, results |-> <<>>],
      [ok |-> TRUE, results |-> <<>>],
      [ok |-> TRUE, results |-> <<[kind |-> "session.duration_ms", value |-> "7"],
                                 [kind |-> "branch", value |-> "main"]>>] }

\* value_to_event_string: an integer is printed in decimal, a string as it is.
value_to_event_string(v) == IF v.t = "number" THEN ToString(v.n) ELSE v.s

\* value.parse::<i64>(): the number a decimal string stands for, if any.
parse_i64(str) ==
    IF \E n \in JsonNumbers : ToString(n) = str
    THEN <<CHOOSE n \in JsonNumbers : ToString(n) = str>>
    ELSE <<>>

\* serde_json::Map::insert: a later value of a key replaces the earlier one.
map_insert(map, k, v) ==
    [x \in DOMAIN map \cup {k} |-> IF x = k THEN v ELSE map[x]]

RECURSIVE insert_builtin(_, _)
insert_builtin(map, metrics) ==
    IF metrics = <<>> THEN map
    ELSE insert_builtin(map_insert(map, Head(metrics).kind, Head(metrics).value),
                        Tail(metrics))

RECURSIVE insert_rules(_, _)
insert_rules(map, results) ==
    IF results = <<>> THEN map
    ELSE LET r == Head(results)
             n == parse_i64(r.value)
             v == IF n # <<>> THEN Number(n[1]) ELSE String(r.value)
         IN insert_rules(map_insert(map, r.kind, v), Tail(results))

\* build_observation_data leaving the rule results out.
build_observation_data_NoRules(builtin_metrics, code, rule_results) ==
    LET m1 == insert_builtin(<<>>, builtin_metrics)
    IN IF code # <<>> THEN map_insert(m1, "session.exit_code", Number(code[1])) ELSE m1

\* build_observation_data: the built-in metrics, then the exit code, then the
\* rule results, each replacing an earlier value of its kind.
build_observation_data(builtin_metrics, code, rule_results) ==
    LET m1 == insert_builtin(<<>>, builtin_metrics)
        m2 == IF code # <<>> THEN map_insert(m1, "session.exit_code", Number(code[1])) ELSE m1
    IN insert_rules(m2, rule_results)

\* The duration column: session.duration_ms / 1000, or 0 without that metric.
duration_secs(builtin_metrics) ==
    LET I == {j \in 1..Len(builtin_metrics) :
                builtin_metrics[j].kind = "session.duration_ms"}
    IN IF I = {} THEN 0
       ELSE builtin_metrics[CHOOSE j \in I : \A k \in I : j <= k].value.n \div 1000

\* insert_event: the row takes the default timestamp, the time of the insert.
insert_event_DefaultTs(g, ts, sess, kind, value) ==
    Append(g.events, [id |-> Len(g.events) + 1, ts |-> format_ts(g.now),
                      session |-> sess, kind |-> kind, value |-> value])

\* insert_event_with_ts: INSERT INTO events with the given timestamp; the id
\* is the next of the autoincrement column.
insert_event_with_ts(g, ts, sess, kind, value) ==
    Append(g.events, [id |-> Len(g.events) + 1, ts |-> ts,
                      session |-> sess, kind |-> kind, value |-> value])

\* A plain INSERT INTO observations that keeps the rows of the session.
upsert_observation_Append(observations, sess, ts, duration, data) ==
    Append(observations,
           [session |-> sess, ts |-> ts, duration |-> duration, data |-> data])

\* upsert_observation: INSERT OR REPLACE: the row of the session (the primary
\* key) is removed, the new one added.
upsert_observation(observations, sess, ts, duration, data) ==
    Append(SelectSeq(observations, LAMBDA r : r.session # sess),
           [session |-> sess, ts |-> ts, duration |-> duration, data |-> data])

\* The session ids a call may name: the ids are interchangeable, so the first
\* call names the least one.
FirstSessions(g) ==
    IF g.calls = 0 THEN {CHOOSE s \in Sessions : \A t \in Sessions : s <= t} ELSE Sessions

\* A call of ingest_session_with_rules starts; the adapter's answers are the
\* environment's.
IngestCall ==
    /\ ig.ipc \in {"idle", "ok", "err"}
    /\ ig.calls < MaxIngestions
    /\ \E s \in FirstSessions(ig), c \in ExitCodeArgs, a \in AdapterResults,
          r \in RuleResults :
         ig' = [ig EXCEPT !.ipc = "extract", !.calls = @ + 1, !.session = s,
                          !.exit_code = c, !.adapter = a, !.rules = r, !.i = 0,
                          !.before = [events |-> ig.events,
                                      observations |-> ig.observations]]
    /\ UNCHANGED <<policy, decisions, outputs, bk, loopVars, sw, ex, cz, oc, ad>>

\* After the last built-in event: the exit code event if a code was given,
\* the rules otherwise.
AfterBuiltin(g) == IF g.exit_code # <<>> THEN "exit" ELSE "rules"

\* extract_builtin_metrics, then the one reading of the clock.
Extract ==
    /\ ig.ipc = "extract"
    /\ ig' = IF ~ig.adapter.ok THEN [ig EXCEPT !.ipc = "err"]
             ELSE [ig EXCEPT !.ts = format_ts(ig.now), !.i = 1,
                             !.ipc = IF ig.adapter.metrics = <<>>
                                     THEN AfterBuiltin(ig) ELSE "builtin"]
    /\ UNCHANGED <<policy, decisions, outputs, bk, loopVars, sw, ex, cz, oc, ad>>

\* One turn of the loop over the built-in metrics.
InsertBuiltin ==
    /\ ig.ipc = "builtin"
    /\ LET m == ig.adapter.metrics[ig.i]
       IN ig' = [ig EXCEPT !.events = insert_event_with_ts(ig, ig.ts, ig.session, m.kind,
                                                          value_to_event_string(m.value)),
                           !.i = @ + 1,
                           !.ipc = IF ig.i = Len(ig.adapter.metrics)
                                   THEN AfterBuiltin(ig) ELSE "builtin"]
    /\ UNCHANGED <<policy, decisions, outputs, bk, loopVars, sw, ex, cz, oc, ad>>

\* The session.exit_code event of a supplied exit code.
InsertExitCode ==
    /\ ig.ipc = "exit"
    /\ ig' = [ig EXCEPT !.events = insert_event_with_ts(ig, ig.ts, ig.session,
                                      "session.exit_code", ToString(ig.exit_code[1])),
                        !.ipc = "rules"]
    /\ UNCHANGED <<policy, decisions, outputs, bk, loopVars, sw, ex, cz, oc, ad>>

\* apply_rules_via_adapter: the results, or the error of an unreadable source.
ApplyRules ==
    /\ ig.ipc = "rules"
    /\ ig' = IF ~ig.rules.ok THEN [ig EXCEPT !.ipc = "err"]
             ELSE [ig EXCEPT !.i = 1,
                             !.ipc = IF ig.rules.results = <<>>
                                     THEN "observe" ELSE "rule_events"]
    /\ UNCHANGED <<policy, decisions, outputs, bk, loopVars, sw, ex, cz, oc, ad>>

\* One turn of the loop over the rule results.
InsertRuleEvent ==
    /\ ig.ipc = "rule_events"
    /\ LET r == ig.rules.results[ig.i]
       IN ig' = [ig EXCEPT !.events = insert_event_with_ts(ig, ig.ts, ig.session,
                                                          r.kind, r.value),
                           !.i = @ + 1,
                           !.ipc = IF ig.i = Len(ig.rules.results)
                                   THEN "observe" ELSE "rule_events"]
    /\ UNCHANGED <<policy, decisions, outputs, bk, loopVars, sw, ex, cz, oc, ad>>

\* The observation row is upserted and the call returns Ok.
UpsertObservation ==
    /\ ig.ipc = "observe"
    /\ ig' = [ig EXCEPT !.observations =
                            upsert_observation(ig.observations, ig.session, ig.ts,
                                duration_secs(ig.adapter.metrics),
                                build_observation_data(ig.adapter.metrics, ig.exit_code,
                                                       ig.rules.results)),
                        !.ipc = "ok",
                        !.done = Append(@, [session |-> ig.session,
                                            exit_code |-> ig.exit_code,
                                            metrics |-> ig.adapter.metrics,
                                            results |-> ig.rules.results])]
    /\ UNCHANGED <<policy, decisions, outputs, bk, loopVars, sw, ex, cz, oc, ad>>

\* A database write fails: `?` returns IngestError::Db at once.
DbWriteFails ==
    /\ ig.ipc \in {"builtin", "exit", "rule_events", "observe"}
    /\ ig' = [ig EXCEPT !.ipc = "err"]
    /\ UNCHANGED <<policy, decisions, outputs, bk, loopVars, sw, ex, cz, oc, ad>>

\* Time passes.  The time between two calls is the time before the second
\* call reads the clock.
ClockTick ==
    /\ ig.ipc \in {"extract", "builtin", "exit", "rules", "rule_events", "observe"}
    /\ ig.now < MaxNow
    /\ ig' = [ig EXCEPT !.now = @ + 1]
    /\ UNCHANGED <<policy, decisions, outputs, bk, loopVars, sw, ex, cz, oc, ad>>

IngestInit ==
    /\ NoLoop /\ NoBackoff /\ NoRetryHistory
    /\ policy = new(0, 0)
    /\ sw = NoStatusWrite
    /\ ex = NoRules
    /\ cz = NoCompression
    /\ oc = NoParse
    /\ ad = NoAider
    /\ ig = [NoIngestion EXCEPT !.ipc = "idle"]

IngestNext ==
    \/ IngestCall
    \/ Extract
    \/ InsertBuiltin
    \/ InsertExitCode
    \/ ApplyRules
    \/ InsertRuleEvent
    \/ UpsertObservation
    \/ DbWriteFails
    \/ ClockTick

SpecIngest == IngestInit /\ [][IngestNext]_vars


\* The event rows the running (or last) call has written.
Written == SubSeq(ig.events, Len(ig.before.events) + 1, Len(ig.events))

\* The rows of a session in the observations table.
RowsOf(s) == SelectSeq(ig.observations, LAMBDA r : r.session = s)

\* The last successful ingestion of a session.
LatestOf(s) ==
    ig.done[CHOOSE j \in 1..Len(ig.done) :
              /\ ig.done[j].session = s
              /\ \A k \in 1..Len(ig.done) : ig.done[k].session = s => k <= j]

\* C22: after any sequence of successful ingestions the observations table
\* holds exactly one row for each ingested session and none for the others,
\* that row carries the data of the session's latest ingestion, and the
\* events table only grows: every step keeps the rows it had, unchanged.
C22_OneObservationPerSession ==
    /\ [](\A s \in Sessions :
            IF \E j \in 1..Len(ig.done) : ig.done[j].session = s
            THEN /\ Len(RowsOf(s)) = 1
                 /\ RowsOf(s)[1].data =
                      build_observation_data(LatestOf(s).metrics, LatestOf(s).exit_code,
                                             LatestOf(s).results)
            ELSE RowsOf(s) = <<>>)
    /\ [][/\ Len(ig'.events) >= Len(ig.events)
          /\ SubSeq(ig'.events, 1, Len(ig.events)) = ig.events]_vars

\* The same session was ingested twice with different data, and events of
\* the first ingestion are still there.
C22_Witness ==
    /\ ig.ipc = "ok"
    /\ Len(ig.done) = 2
    /\ ig.done[1].session = ig.done[2].session
    /\ ig.done[1].metrics # ig.done[2].metrics
    /\ ig.before.events # <<>>
    /\ Len(ig.events) > Len(ig.before.events)

\* C23: when an ingestion has failed, the events and observations tables
\* are exactly as they were before the call.
C23_FailedIngestionLeavesTablesUntouched ==
    ig.ipc = "err" =>
        /\ ig.events = ig.before.events
        /\ ig.observations = ig.before.observations

\* The kinds of a list of (kind, value) pairs, in order.
KindsOf(pairs) == [j \in 1..Len(pairs) |-> pairs[j].kind]

\* The kinds a successful call has to write, in the order of the code.
ExpectedKinds(g) ==
    KindsOf(g.adapter.metrics)
        \o (IF g.exit_code # <<>> THEN <<"session.exit_code">> ELSE <<>>)
        \o KindsOf(g.rules.results)

\* C24: after a successful ingestion the kinds of the event rows it wrote are
\* the kinds of the adapter's built-in metrics, then session.exit_code if and
\* only if an exit code was supplied, then the kinds of the rules that
\* emitted; the rows belong to the session, and the data object of the
\* session's observation has exactly those kinds as its keys.
C24_EventKindsAndObservationKeys ==
    ig.ipc = "ok" =>
        /\ KindsOf(Written) = ExpectedKinds(ig)
        /\ \A j \in 1..Len(Written) : Written[j].session = ig.session
        /\ Len(RowsOf(ig.session)) = 1
        /\ DOMAIN RowsOf(ig.session)[1].data =
             {ExpectedKinds(ig)[j] : j \in 1..Len(ExpectedKinds(ig))}

\* A successful ingestion with built-in metrics, a supplied exit code and
\* rules that emitted.
C24_Witness ==
    /\ ig.ipc = "ok"
    /\ ig.adapter.metrics # <<>>
    /\ ig.exit_code # <<>>
    /\ ig.rules.results # <<>>
    /\ Len(Written) = 5

\* C25: all the event rows one call writes carry the timestamp the call took
\* once, before its first write, and the observation row it upserts carries
\* the same timestamp.
C25_OneTimestampPerIngestion ==
    /\ ig.ipc \in {"builtin", "exit", "rules", "rule_events", "observe", "ok"} =>
         \A j \in 1..Len(Written) : Written[j].ts = ig.ts
    /\ ig.ipc = "err" =>
         \A j, k \in 1..Len(Written) : Written[j].ts = Written[k].ts
    /\ ig.ipc = "ok" =>
         \A j \in 1..Len(RowsOf(ig.session)) : RowsOf(ig.session)[j].ts = ig.ts

\* A successful call that wrote several events while the clock moved on to
\* another second.
C25_Witness ==
    /\ ig.ipc = "ok"
    /\ Len(Written) >= 2
    /\ format_ts(ig.now) # ig.ts


\* ---------------------------------------------------------------------------
\* Extraction rules (ingest.rs): apply_single_rule scans the lines of one
\* source and pushes at most one (kind, value) pair onto the results.  A line
\* is what the two regexes make of it: the capture of the pattern (none if
\* the pattern does not match) and whether the anti-pattern matches.  Values
\* are strings, written as sequences of characters.
\* ---------------------------------------------------------------------------

\* The lines of the model: no match; a match; the same match on a line the
\* anti-pattern matches too; another match.
Lines ==
    { [captures |-> None, anti |-> FALSE],
      [captures |-> Some(<<"a", "-", "1">>), anti |-> FALSE],
      [captures |-> Some(<<"a", "-", "1">>), anti |-> TRUE],
      [captures |-> Some(<<" ", "b">>), anti |-> FALSE] }

\* The line streams of at most MaxLines lines.
LineStreams == UNION {[1..n -> Lines] : n \in 0..MaxLines}

\* The compiled rules: every combination of the mode fields, with or without
\* an anti-pattern (without one, no line is excluded), every transform.
Rules ==
    [kind : {"k"}, emit : {None, Some(<<"y">>)}, count : BOOLEAN,
     first_match : BOOLEAN, anti_pattern : BOOLEAN,
     transform : {"none", "last_segment", "int", "trim"}]

\* rule.pattern.is_match(line)
is_match(line) == line.captures # None

\* The line is excluded by the rule's anti-pattern.
anti_match(rule, line) == rule.anti_pattern /\ line.anti

Digits == {"0", "1", "2", "3", "4", "5", "6", "7", "8", "9"}

\* usize::to_string for the counts of the model.
to_string(n) ==
    IF n < 10 THEN <<ToString(n)>> ELSE <<ToString(n \div 10), ToString(n % 10)>>

RECURSIVE rsplit_last(_)
\* input.rsplit('-').next(): what follows the last '-'.
rsplit_last(input) ==
    IF input = <<>> THEN <<>>
    ELSE IF input[Len(input)] = "-" THEN <<>>
    ELSE Append(rsplit_last(SubSeq(input, 1, Len(input) - 1)), input[Len(input)])

RECURSIVE trim_start(_)
trim_start(input) ==
    IF input # <<>> /\ Head(input) = " " THEN trim_start(Tail(input)) ELSE input

RECURSIVE trim_end(_)
trim_end(input) ==
    IF input # <<>> /\ input[Len(input)] = " "
    THEN trim_end(SubSeq(input, 1, Len(input) - 1)) ELSE input

\* apply_transform
apply_transform(input, transform) ==
    CASE transform = "last_segment" -> rsplit_last(input)
      [] transform = "int" -> SelectSeq(input, LAMBDA c : c \in Digits)
      [] transform = "trim" -> trim_end(trim_start(input))
      [] OTHER -> input

\* The count of the count mode, the anti-pattern ignored.
count_lines_IgnoresAnti(rule, lines) ==
    Len(SelectSeq(lines, LAMBDA line : is_match(line)))

\* The count of the count mode: the lines the pattern matches and the
\* anti-pattern does not.
count_lines(rule, lines) ==
    Len(SelectSeq(lines, LAMBDA line : is_match(line) /\ ~anti_match(rule, line)))

\* The transformed captures of the lines left after the anti-pattern, in order.
matches_of(rule, lines) ==
    LET kept == SelectSeq(lines, LAMBDA line : ~anti_match(rule, line) /\ is_match(line))
    IN [j \in 1..Len(kept) |-> apply_transform(kept[j].captures.val, rule.transform)]

RECURSIVE join_quoted(_)
\* The elements of a JSON array of strings, quoted and separated by commas.
join_quoted(values) ==
    IF values = <<>> THEN <<>>
    ELSE <<"\"">> \o Head(values) \o <<"\"">>
         \o (IF Tail(values) = <<>> THEN <<>> ELSE <<",">> \o join_quoted(Tail(values)))

\* Value::Array(arr).to_string()
array_to_string(values) == <<"[">> \o join_quoted(values) \o <<"]">>

\* apply_single_rule: emit before count before first_match before default.
apply_single_rule(rule, lines, results) ==
    IF rule.emit # None THEN
        IF \E j \in 1..Len(lines) : is_match(lines[j])
        THEN Append(results, [kind |-> rule.kind, value |-> rule.emit.val])
        ELSE results
    ELSE IF rule.count THEN
        Append(results, [kind |-> rule.kind, value |-> to_string(count_lines(rule, lines))])
    ELSE IF rule.first_match THEN
        IF matches_of(rule, lines) # <<>>
        THEN Append(results, [kind |-> rule.kind, value |-> matches_of(rule, lines)[1]])
        ELSE results
    ELSE
        LET matches == matches_of(rule, lines)
        IN IF matches = <<>> THEN results
           ELSE IF Len(matches) = 1
                THEN Append(results, [kind |-> rule.kind, value |-> matches[1]])
                ELSE Append(results, [kind |-> rule.kind, value |-> array_to_string(matches)])

\* One turn of the loop over the rules in apply_rules_via_adapter.
ApplyRule ==
    /\ ex.applied < MaxRuleRuns
    /\ \E rule \in Rules :
         ex' = [ex EXCEPT !.results = apply_single_rule(rule, ex.lines, ex.results),
                          !.before = ex.results, !.rule = Some(rule),
                          !.applied = @ + 1]
    /\ UNCHANGED <<policy, decisions, outputs, bk, loopVars, sw, ig, cz, oc, ad>>

RulesInit ==
    /\ NoLoop /\ NoBackoff /\ NoRetryHistory
    /\ policy = new(0, 0)
    /\ sw = NoStatusWrite
    /\ ig = NoIngestion
    /\ cz = NoCompression
    /\ oc = NoParse
    /\ ad = NoAider
    /\ \E lines \in LineStreams : ex = [NoRules EXCEPT !.lines = lines]

RulesNext == ApplyRule

SpecRules == RulesInit /\ [][RulesNext]_vars


\* The mode a rule runs in.
ModeOf(rule) ==
    IF rule.emit # None THEN "emit"
    ELSE IF rule.count THEN "count"
    ELSE IF rule.first_match THEN "first_match"
    ELSE "default"

\* The pairs the rule applied last has pushed.
Pushed == SubSeq(ex.results, Len(ex.before) + 1, Len(ex.results))

\* C26: applying a rule to a line stream keeps the results it found and
\* appends at most one pair, of the rule's kind; a rule in count mode appends
\* exactly one, whose value is the number of lines that match the pattern and
\* not the anti-pattern (0 when there are none); a rule in emit, first_match
\* or default mode appends a pair only if some line matches the pattern.
C26_AtMostOnePairPerRule ==
    ex.applied > 0 =>
        LET rule == ex.rule.val
            n == Cardinality({j \in 1..Len(ex.lines) :
                                /\ ex.lines[j].captures # None
                                /\ ~(rule.anti_pattern /\ ex.lines[j].anti)})
        IN /\ SubSeq(ex.results, 1, Len(ex.before)) = ex.before
           /\ Len(Pushed) <= 1
           /\ \A j \in 1..Len(Pushed) : Pushed[j].kind = rule.kind
           /\ ModeOf(rule) = "count" =>
                /\ Len(Pushed) = 1
                /\ Pushed[1].value = to_string(n)
           /\ (ModeOf(rule) # "count" /\ Pushed # <<>>) =>
                \E j \in 1..Len(ex.lines) : ex.lines[j].captures # None

\* A count rule with an anti-pattern pushed a count that leaves a matching
\* line out.
C26_Witness ==
    /\ ex.applied > 0
    /\ ModeOf(ex.rule.val) = "count"
    /\ ex.rule.val.anti_pattern
    /\ \E j \in 1..Len(ex.lines) : ex.lines[j].captures # None /\ ex.lines[j].anti
    /\ Pushed = <<[kind |-> "k", value |-> <<"1">>]>>


\* ---------------------------------------------------------------------------
\* Compression of old session files (compress.rs).  A file name is the
\* sequence of its characters, an extension being one element (".jsonl",
\* ".zst"); the directory maps the names present to their contents.
\* ---------------------------------------------------------------------------

\* {N}.jsonl and {N}.jsonl.zst for the numbers of the model (one digit each).
jsonl_name(n) == <<ToString(n), ".jsonl">>
zst_name(n) == <<ToString(n), ".jsonl", ".zst">>

\* Other names a sessions directory may hold.
OddNames == { <<"x", ".jsonl">>, <<"+", "1", ".jsonl">> }

NamePool ==
    {jsonl_name(n) : n \in 0..MaxFileNumber} \cup {zst_name(n) : n \in 0..MaxFileNumber}
        \cup OddNames

\* zstd::encode_all(input, 3): a frame around the input.
encode_all(input) == <<"zstd">> \o input \o <<"end">>

\* zstd::decode_all: the input of a whole frame, None for anything else.
decode_all(bytes) ==
    IF Len(bytes) >= 2 /\ bytes[1] = "zstd" /\ bytes[Len(bytes)] = "end"
    THEN Some(SubSeq(bytes, 2, Len(bytes) - 1))
    ELSE None

\* What the files of the model hold before the sweep.
InitialContent(name) ==
    IF name[Len(name)] = ".zst" THEN encode_all(<<"old">>) ELSE <<"data", name[1]>>

\* file_name.ends_with(".jsonl") and file_name.ends_with(".jsonl.zst")
ends_with_jsonl(file_name) == file_name[Len(file_name)] = ".jsonl"
ends_with_jsonl_zst(file_name) ==
    /\ Len(file_name) >= 2
    /\ file_name[Len(file_name)] = ".zst"
    /\ file_name[Len(file_name) - 1] = ".jsonl"

RECURSIVE digits_value(_)
digits_value(s) ==
    IF s = <<>> THEN 0
    ELSE 10 * digits_value(SubSeq(s, 1, Len(s) - 1))
         + (CHOOSE d \in 0..9 : ToString(d) = s[Len(s)])

\* str::parse::<u64>(): an optional '+', then one digit or more (the names of
\* the model stay far below the overflow).
parse_u64(s) ==
    LET digits == IF s # <<>> /\ Head(s) = "+" THEN Tail(s) ELSE s
    IN IF digits # <<>> /\ \A j \in 1..Len(digits) : digits[j] \in Digits
       THEN Some(digits_value(digits))
       ELSE None

\* The iteration number of every name with the suffix .jsonl.
iteration_of_AnyStem(file_name) ==
    IF ~ends_with_jsonl(file_name) \/ ends_with_jsonl_zst(file_name) THEN None
    ELSE Some(0)

\* The iteration number the sweep reads off a file name, None for a name it
\* passes over: not .jsonl, or .jsonl.zst, or no number before the suffix.
iteration_of(file_name) ==
    IF ~ends_with_jsonl(file_name) \/ ends_with_jsonl_zst(file_name) THEN None
    ELSE parse_u64(SubSeq(file_name, 1, Len(file_name) - 1))

\* The threshold without the subtraction.
threshold_NoSub(current_iteration, compress_after) == current_iteration

\* current_iteration.saturating_sub(compress_after)
threshold(current_iteration, compress_after) ==
    IF current_iteration >= compress_after
    THEN current_iteration - compress_after ELSE 0

\* path.with_extension("jsonl.zst")
with_extension(path) == SubSeq(path, 1, Len(path) - 1) \o <<".jsonl", ".zst">>

\* How a call of compress_file can end: Ok, or an error of the read, of the
\* write of the destination (before or after some bytes were written), or of
\* the removal of the original.
Outcomes == {"ok", "read", "write_open", "write_partial", "remove"}

\* Writing a name: the name is added or its content replaced.
write_file(dir, name, bytes) ==
    [x \in DOMAIN dir \cup {name} |-> IF x = name THEN bytes ELSE dir[x]]

\* std::fs::remove_file
remove_file(dir, name) == [x \in DOMAIN dir \ {name} |-> dir[x]]

\* compress_file: the directory it leaves behind.
compress_file(dir, path, outcome) ==
    LET dest == with_extension(path)
        compressed == encode_all(dir[path])
    IN CASE outcome \in {"read", "write_open"} -> dir
         [] outcome = "write_partial" -> write_file(dir, dest, SubSeq(compressed, 1, 1))
         [] outcome = "remove" -> write_file(dir, dest, compressed)
         [] OTHER -> remove_file(write_file(dir, dest, compressed), path)

\* A failed file stops the sweep.
on_compress_error_Stops(todo, entry) == {}

\* A failed file is logged and the loop goes on with the entries left.
on_compress_error(todo, entry) == todo \ {entry}

\* The early returns, then read_dir.
StartSweep ==
    /\ cz.cpc = "idle"
    /\ cz' = IF cz.compress_after = 0 \/ cz.current_iteration < cz.compress_after
             THEN [cz EXCEPT !.cpc = "returned"]
             ELSE [cz EXCEPT !.cpc = "sweep", !.todo = DOMAIN cz.dir]
    /\ UNCHANGED <<policy, decisions, outputs, bk, loopVars, sw, ig, ex, oc, ad>>

\* read_dir fails: a warning, and the function returns.
ReadDirFails ==
    /\ cz.cpc = "idle"
    /\ ~(cz.compress_after = 0 \/ cz.current_iteration < cz.compress_after)
    /\ cz' = [cz EXCEPT !.cpc = "returned", !.io_failure = TRUE]
    /\ UNCHANGED <<policy, decisions, outputs, bk, loopVars, sw, ig, ex, oc, ad>>

\* The file of an entry is to be compressed.
Eligible(c, entry) ==
    /\ iteration_of(entry) # None
    /\ iteration_of(entry).val <= threshold(c.current_iteration, c.compress_after)

\* An entry the loop passes over (read_dir gives the entries in any order).
SkipEntry ==
    /\ cz.cpc = "sweep" /\ cz.step = "none"
    /\ \E entry \in cz.todo :
         /\ ~Eligible(cz, entry)
         /\ cz' = [cz EXCEPT !.todo = @ \ {entry}]
    /\ UNCHANGED <<policy, decisions, outputs, bk, loopVars, sw, ig, ex, oc, ad>>

\* An entry whose file is compressed.
CompressEntry ==
    /\ cz.cpc = "sweep" /\ cz.step = "none"
    /\ \E entry \in cz.todo :
         /\ Eligible(cz, entry)
         /\ cz' = [cz EXCEPT !.dir = compress_file(@, entry, "ok"),
                             !.todo = @ \ {entry}]
    /\ UNCHANGED <<policy, decisions, outputs, bk, loopVars, sw, ig, ex, oc, ad>>

\* An entry whose compression fails.
CompressEntryFails ==
    /\ cz.cpc = "sweep" /\ cz.step = "none"
    /\ \E entry \in cz.todo, outcome \in Outcomes \ {"ok"} :
         /\ Eligible(cz, entry)
         /\ cz' = [cz EXCEPT !.dir = compress_file(@, entry, outcome),
                             !.todo = on_compress_error(@, entry),
                             !.failed = @ \cup {entry},
                             !.io_failure = TRUE]
    /\ UNCHANGED <<policy, decisions, outputs, bk, loopVars, sw, ig, ex, oc, ad>>

\* The entries are exhausted: the function returns.
EndSweep ==
    /\ cz.cpc = "sweep" /\ cz.step = "none"
    /\ cz.todo = {}
    /\ cz' = [cz EXCEPT !.cpc = "returned"]
    /\ UNCHANGED <<policy, decisions, outputs, bk, loopVars, sw, ig, ex, oc, ad>>

CompressInit ==
    /\ NoLoop /\ NoBackoff /\ NoRetryHistory
    /\ policy = new(0, 0)
    /\ sw = NoStatusWrite
    /\ ig = NoIngestion
    /\ ex = NoRules
    /\ oc = NoParse
    /\ ad = NoAider
    /\ \E present \in SUBSET NamePool, current \in 0..MaxCurrent,
          after \in 0..MaxCompressAfter :
         LET dir == [name \in present |-> InitialContent(name)]
         IN cz = [NoCompression EXCEPT !.dir = dir, !.before = dir, !.cpc = "idle",
                                       !.current_iteration = current,
                                       !.compress_after = after]

CompressNext ==
    \/ StartSweep
    \/ ReadDirFails
    \/ SkipEntry
    \/ CompressEntry
    \/ CompressEntryFails
    \/ EndSweep

SpecCompress == CompressInit /\ [][CompressNext]_vars


\* A name is present in a directory.
Present(dir, name) == name \in DOMAIN dir

\* C27: after a sweep without I/O failure, for every number N whose file
\* {N}.jsonl was there before: if compress_after > 0, current_iteration >=
\* compress_after and N <= current_iteration - compress_after, then {N}.jsonl
\* is gone and {N}.jsonl.zst decompresses to what {N}.jsonl held; otherwise
\* {N}.jsonl is as it was and {N}.jsonl.zst is as it was, absent if it was
\* absent.
C27_OldSessionsCompressedExactly ==
    (cz.cpc = "returned" /\ ~cz.io_failure) =>
        \A n \in 0..MaxFileNumber :
            Present(cz.before, jsonl_name(n)) =>
                IF /\ cz.compress_after > 0
                   /\ cz.current_iteration >= cz.compress_after
                   /\ n <= cz.current_iteration - cz.compress_after
                THEN /\ ~Present(cz.dir, jsonl_name(n))
                     /\ Present(cz.dir, zst_name(n))
                     /\ decode_all(cz.dir[zst_name(n)]) = Some(cz.before[jsonl_name(n)])
                ELSE /\ Present(cz.dir, jsonl_name(n))
                     /\ cz.dir[jsonl_name(n)] = cz.before[jsonl_name(n)]
                     /\ Present(cz.dir, zst_name(n)) = Present(cz.before, zst_name(n))
                     /\ Present(cz.dir, zst_name(n)) =>
                          cz.dir[zst_name(n)] = cz.before[zst_name(n)]

\* A sweep compressed one session file and left a newer one alone.
C27_Witness ==
    /\ cz.cpc = "returned" /\ ~cz.io_failure
    /\ Present(cz.before, jsonl_name(0)) /\ ~Present(cz.dir, jsonl_name(0))
    /\ Present(cz.dir, zst_name(0))
    /\ Present(cz.before, jsonl_name(1)) /\ Present(cz.dir, jsonl_name(1))
    /\ cz.current_iteration = 1

\* A name made of digits (with or without a '+' before them) and .jsonl.
IsSessionName(name) ==
    /\ name[Len(name)] = ".jsonl"
    /\ LET stem == SubSeq(name, 1, Len(name) - 1)
           digits == IF stem # <<>> /\ Head(stem) = "+" THEN Tail(stem) ELSE stem
       IN digits # <<>> /\ \A j \in 1..Len(digits) : digits[j] \in Digits

\* The file is as it was before the sweep.
Untouched(name) ==
    /\ Present(cz.dir, name) = Present(cz.before, name)
    /\ Present(cz.dir, name) => cz.dir[name] = cz.before[name]

C29_SweepGoesOnAfterFailure ==
    /\ [](cz.cpc = "returned" =>
            \A entry \in DOMAIN cz.before :
                (cz.failed # {} /\ Eligible(cz, entry) /\ entry \notin cz.failed) =>
                    /\ ~Present(cz.dir, entry)
                    /\ decode_all(cz.dir[with_extension(entry)]) = Some(cz.before[entry]))
    /\ []((cz.cpc = "sweep" /\ cz.failed # {}) => ENABLED CompressNext)
    /\ [][(cz.cpc = "sweep" /\ cz.failed # {}) =>
            \/ cz'.todo # cz.todo /\ cz'.todo \subseteq cz.todo /\ cz'.cpc = "sweep"
            \/ cz.todo = {} /\ cz'.cpc = "returned"]_vars

\* One file failed and another was compressed in the same sweep.
C29_Witness ==
    /\ cz.cpc = "returned"
    /\ cz.failed # {}
    /\ \E entry \in DOMAIN cz.before :
         entry \notin cz.failed /\ Eligible(cz, entry) /\ ~Present(cz.dir, entry)


\* ---------------------------------------------------------------------------
\* The OpenCode adapter (adapters/opencode.rs): parse_opencode_output sums
\* the token counts of a session output.  A JSON object is the record of the
\* keys it has; a file is a sequence of lines with one object each, an array
\* of objects, or one object.
\* ---------------------------------------------------------------------------

\* obj.get(key) of serde_json: None for a missing key and for an array.
get(obj, key) == IF key \in DOMAIN obj THEN Some(obj[key]) ELSE None

\* The object with the keys of both, the second's values where both have one.
Merge(f, g) == [k \in DOMAIN f \cup DOMAIN g |-> IF k \in DOMAIN g THEN g[k] ELSE f[k]]

\* The object without keys.
EmptyObject == [k \in {} |-> 0]

\* The objects of a message list: a message without tokens, a message with
\* its own token counts, a message with a usage object, an object that has
\* token counts and nothing else.
MessageObjects ==
    { [role |-> "assistant"],
      [role |-> "assistant", prompt_tokens |-> 1, completion_tokens |-> 2],
      [role |-> "assistant", usage |-> [prompt_tokens |-> 4, completion_tokens |-> 8]],
      [prompt_tokens |-> 1, completion_tokens |-> 2] }

MessageLists == UNION {[1..n -> MessageObjects] : n \in 0..MaxMessages}

\* The nested session object of a session export.
SessionObjects ==
    { Merge(t, ms) :
        t \in {EmptyObject, [prompt_tokens |-> 64, completion_tokens |-> 128]},
        ms \in {EmptyObject} \cup {[messages |-> q] : q \in MessageLists} }

\* The objects a file can consist of: a session export with or without token
\* counts and a nested session, its messages under messages or under
\* session.messages, or a single message.
TopObjects ==
    { Merge(Merge(Merge(t, r), ms), ss) :
        t \in {EmptyObject, [prompt_tokens |-> 16, completion_tokens |-> 32]},
        r \in {EmptyObject, [role |-> "assistant"]},
        ms \in {EmptyObject} \cup {[messages |-> q] : q \in MessageLists},
        ss \in {EmptyObject} \cup {[session |-> o] : o \in SessionObjects} }

\* The two places of the messages are alternatives: an export has one.
OneMessageList(o) ==
    ~("messages" \in DOMAIN o /\ "session" \in DOMAIN o /\ "messages" \in DOMAIN o.session)

\* The files: lines of objects (JSONL), an array, one object.
Files ==
    {[shape |-> "lines", value |-> q] : q \in MessageLists}
        \cup {[shape |-> "array", value |-> q] : q \in MessageLists}
        \cup {[shape |-> "object", value |-> o] : o \in {t \in TopObjects : OneMessageList(t)}}

\* serde_json::from_str of the whole content: an array or an object file is
\* one JSON value, and so is a file of one line; no line and several lines
\* are not.
from_str(file) ==
    IF file.shape = "lines"
    THEN IF Len(file.value) = 1
         THEN Some([shape |-> "object", value |-> file.value[1]])
         ELSE None
    ELSE Some(file)

\* *m.input_tokens.get_or_insert(0) += n
add_tokens(sum, n) == Some((IF sum.some THEN sum.val ELSE 0) + n)

\* The token counts of one object added to the sums, when it has them.
add_from(m, obj, in_key, out_key) ==
    LET pt == get(obj, in_key)
        ct == get(obj, out_key)
    IN [m EXCEPT !.input_tokens = IF pt.some THEN add_tokens(@, pt.val) ELSE @,
                 !.output_tokens = IF ct.some THEN add_tokens(@, ct.val) ELSE @]

\* extract_metadata_from_object
extract_metadata_from_object(val, m) ==
    IF val.shape = "array" THEN m
    ELSE add_from(m, val.value, "prompt_tokens", "completion_tokens")

\* extract_session_metadata: the top-level object, then the nested session.
extract_session_metadata(val, m) ==
    LET m1 == extract_metadata_from_object(val, m)
        session_obj == IF val.shape = "array" THEN None ELSE get(val.value, "session")
    IN IF session_obj.some
       THEN extract_metadata_from_object([shape |-> "object", value |-> session_obj.val], m1)
       ELSE m1

\* extract_messages_from_value: the array, or messages, or session.messages,
\* or the object itself when it looks like a message.
extract_messages_from_value(val) ==
    IF val.shape = "array" THEN val.value
    ELSE IF get(val.value, "messages").some THEN val.value.messages
    ELSE IF get(val.value, "session").some /\ get(val.value.session, "messages").some
         THEN val.value.session.messages
    ELSE IF get(val.value, "role").some \/ get(val.value, "parts").some
         THEN <<val.value>>
    ELSE <<>>

\* accumulate_tokens: the usage object of a message, input_tokens before
\* prompt_tokens and output_tokens before completion_tokens.
accumulate_tokens(usage, m) ==
    add_from(m, usage,
             IF "input_tokens" \in DOMAIN usage THEN "input_tokens" ELSE "prompt_tokens",
             IF "output_tokens" \in DOMAIN usage THEN "output_tokens" ELSE "completion_tokens")

\* process_message: the usage of the message, then its own token counts.
process_message(msg, m) ==
    LET usage == get(msg, "usage")
        m1 == IF usage.some THEN accumulate_tokens(usage.val, m) ELSE m
    IN add_from(m1, msg, "prompt_tokens", "completion_tokens")

\* The file is read and its format detected: one JSON value (the session
\* metadata is taken and the messages extracted) or JSONL.
ParseFile ==
    /\ oc.opc = "start"
    /\ LET val == from_str(oc.file)
       IN oc' = IF val.some
                THEN [extract_session_metadata(val.val, oc) EXCEPT
                         !.messages = extract_messages_from_value(val.val),
                         !.opc = "messages"]
                ELSE [oc EXCEPT !.messages = oc.file.value, !.opc = "messages"]
    /\ UNCHANGED <<policy, decisions, outputs, bk, loopVars, sw, ig, ex, cz, ad>>

\* One turn of the loop over the messages.
ProcessMessage ==
    /\ oc.opc = "messages"
    /\ oc.messages # <<>>
    /\ oc' = [process_message(Head(oc.messages), oc) EXCEPT !.messages = Tail(oc.messages)]
    /\ UNCHANGED <<policy, decisions, outputs, bk, loopVars, sw, ig, ex, cz, ad>>

\* The messages are exhausted: the metrics are returned.
ReturnMetrics ==
    /\ oc.opc = "messages"
    /\ oc.messages = <<>>
    /\ oc' = [oc EXCEPT !.opc = "done"]
    /\ UNCHANGED <<policy, decisions, outputs, bk, loopVars, sw, ig, ex, cz, ad>>

OpencodeInit ==
    /\ NoLoop /\ NoBackoff /\ NoRetryHistory
    /\ policy = new(0, 0)
    /\ sw = NoStatusWrite
    /\ ig = NoIngestion
    /\ ex = NoRules
    /\ cz = NoCompression
    /\ ad = NoAider
    /\ \E file \in Files : oc = [NoParse EXCEPT !.file = file, !.opc = "start"]

OpencodeNext ==
    \/ ParseFile
    \/ ProcessMessage
    \/ ReturnMetrics

SpecOpencode == OpencodeInit /\ [][OpencodeNext]_vars


\* The objects of a file that may carry token counts: the lines or the items
\* of the array; for an object, the object itself, its nested session, its
\* messages and the messages of the session.
ObjectsOf(file) ==
    IF file.shape # "object" THEN file.value
    ELSE LET top == file.value
         IN <<top>>
            \o (IF "messages" \in DOMAIN top THEN top.messages ELSE <<>>)
            \o (IF "session" \in DOMAIN top
                THEN <<top.session>>
                     \o (IF "messages" \in DOMAIN top.session
                         THEN top.session.messages ELSE <<>>)
                ELSE <<>>)

\* The values of a key present in an object: its own and that of its usage.
ValuesIn(obj, key) ==
    (IF key \in DOMAIN obj THEN <<obj[key]>> ELSE <<>>)
        \o (IF "usage" \in DOMAIN obj /\ key \in DOMAIN obj.usage
            THEN <<obj.usage[key]>> ELSE <<>>)

RECURSIVE ValuesPresent(_, _)
\* All the values of a key present in a sequence of objects.
ValuesPresent(objs, key) ==
    IF objs = <<>> THEN <<>>
    ELSE ValuesIn(Head(objs), key) \o ValuesPresent(Tail(objs), key)

RECURSIVE SumOf(_)
SumOf(values) == IF values = <<>> THEN 0 ELSE Head(values) + SumOf(Tail(values))

\* The total a file has to give for a key: the sum of the values present,
\* nothing when there is none.
TotalPresent(file, key) ==
    LET values == ValuesPresent(ObjectsOf(file), key)
    IN IF values = <<>> THEN [some |-> FALSE, val |-> 0] ELSE Some(SumOf(values))

\* C30: for OpenCode output of every shape, the reported cost.input_tokens
\* and cost.output_tokens are the sums of the prompt_tokens and
\* completion_tokens values present in the file, each value counted once.
C30_TokensSummedOnce ==
    oc.opc = "done" =>
        /\ oc.input_tokens = TotalPresent(oc.file, "prompt_tokens")
        /\ oc.output_tokens = TotalPresent(oc.file, "completion_tokens")


----------------------------------------------------------------------------
(* Further claims about the retry policy, checked under SpecRetry *)

\* The below-threshold outputs among the first i evaluations since
\* construction or the last reset.
BelowUpTo(i) == Cardinality({j \in 1..i : outputs[j] < policy.min_output_bytes})

\* C38: every Retry{attempt} that evaluate returns has 1 <= attempt <=
\* max_retries, and attempt is the number of below-threshold evaluations
\* since the last reset (or since construction), that call included.
C38_RetryAttemptCountsBelowThreshold ==
    \A i \in 1..Len(decisions) :
        decisions[i].kind = "Retry" =>
            /\ 1 <= decisions[i].attempt
            /\ decisions[i].attempt <= policy.max_retries
            /\ decisions[i].attempt = BelowUpTo(i)

\* A retry, a Proceed, and a second retry that counts on from the first.
C38_Witness ==
    /\ Len(decisions) >= 3
    /\ decisions[1] = Retry(1)
    /\ decisions[2] = Proceed
    /\ decisions[3] = Retry(2)


----------------------------------------------------------------------------
(* Further claims about extraction rules and ingestion *)

\* The lines a rule may take as matches: the pattern matches and the rule's
\* anti-pattern, if it has one, does not.
Matching(rule, lines) ==
    {j \in 1..Len(lines) :
        lines[j].captures # None /\ ~(rule.anti_pattern /\ lines[j].anti)}

\* C36: in every rule mode a line that matches anti_pattern is skipped and
\* never counts as a match: a count rule counts the other matching lines
\* only, and an emit, first_match or default rule pushes nothing when every
\* line matching pattern also matches anti_pattern.
C36_AntiPatternLinesNeverMatch ==
    ex.applied > 0 =>
        LET rule == ex.rule.val
        IN /\ ModeOf(rule) = "count" =>
                Pushed[1].value = to_string(Cardinality(Matching(rule, ex.lines)))
           /\ (ModeOf(rule) # "count" /\ Matching(rule, ex.lines) = {}) => Pushed = <<>>

\* The value under session.exit_code in a list of built-in metrics.
AdapterExitCode(metrics) ==
    LET I == {j \in 1..Len(metrics) : metrics[j].kind = "session.exit_code"}
    IN IF I = {} THEN None ELSE Some(metrics[CHOOSE j \in I : \A k \in I : k <= j].value)

\* C37: when the adapter's built-in metrics contain session.exit_code and
\* the call is given an exit code with another value, the session.exit_code
\* in the data of the observation is the adapter's value.
C37_AdapterExitCodeTakesPrecedence ==
    (/\ ig.ipc = "ok"
     /\ AdapterExitCode(ig.adapter.metrics).some
     /\ ig.exit_code # <<>>
     /\ AdapterExitCode(ig.adapter.metrics).val # Number(ig.exit_code[1])) =>
        RowsOf(ig.session)[1].data["session.exit_code"]
            = AdapterExitCode(ig.adapter.metrics).val


----------------------------------------------------------------------------
(* A further claim about StatusFile::write *)

\* C40: when StatusFile::write has failed, at the write of the temp file or
\* at the rename, the status path holds what it held before the call, a
\* whole document or nothing; and the caller of StatusTracker::update goes
\* on: the next update can write.
C40_FailedWriteKeepsPreviousDocument ==
    sw.wpc = "err" =>
        /\ file_at(sw, "path") = sw.before
        /\ sw.before = NotFound \/ (\E d \in StatusDocs : sw.before = to_string_pretty(d))
        /\ sw.writes < MaxStatusWrites => ENABLED BeginWrite

\* The rename of a second write failed: the whole new document is in the
\* temp file and the status path still has the first.
C40_Witness ==
    /\ sw.wpc = "err"
    /\ sw.before = to_string_pretty("a")
    /\ sw.names[tmp_path] # 0
    /\ file_at(sw, tmp_path) = to_string_pretty("b")
    /\ sw.names["path"] # sw.names[tmp_path]


\* ---------------------------------------------------------------------------
\* The Aider adapter (adapters/aider.rs): the count of turns of a transcript.
\* A line is the sequence of its characters.
\* ---------------------------------------------------------------------------

\* The lines of the model: empty, ">", a prompt, a line that starts with '>'
\* but not with "> ", a blank, and a line of text.
AiderLines ==
    { <<>>, <<">">>, <<">", " ", "q">>, <<">", "q">>, <<" ">>, <<"a">> }

RECURSIVE Transcripts(_)
Transcripts(n) ==
    IF n = 0 THEN { <<>> }
    ELSE LET shorter == Transcripts(n - 1)
         IN shorter \cup { Append(t, l) : t \in {u \in shorter : Len(u) = n - 1},
                                           l \in AiderLines }

\* line.starts_with("> ")
starts_with_prompt(line) == Len(line) >= 2 /\ line[1] = ">" /\ line[2] = " "

\* let is_user_prompt = line.starts_with("> ") || line == ">"
is_user_prompt(line) == starts_with_prompt(line) \/ line = <<">">>

\* The body of the loop over the lines, for one line.
on_line(a, line) ==
    IF is_user_prompt(line)
    THEN IF a.in_assistant_block /\ a.current_assistant_text # <<>>
         THEN [a EXCEPT !.turns_total = @ + 1,
                        !.current_assistant_text = <<>>,
                        !.in_assistant_block = FALSE]
         ELSE [a EXCEPT !.in_assistant_block = FALSE]
    ELSE IF line # <<>>
         THEN [a EXCEPT !.in_assistant_block = TRUE,
                        !.current_assistant_text = Append(@, line)]
         ELSE a

\* No flush of the last block.
flush_None(a) == a

\* After the loop: the last assistant block, if there is one, is a turn.
flush(a) ==
    IF a.in_assistant_block /\ a.current_assistant_text # <<>>
    THEN [a EXCEPT !.turns_total = @ + 1]
    ELSE a

\* The next line of the file is read.
AiderReadLine ==
    /\ ad.apc = "lines"
    /\ ad.pos < Len(ad.lines)
    /\ ad' = [on_line(ad, ad.lines[ad.pos + 1]) EXCEPT !.pos = ad.pos + 1]
    /\ UNCHANGED <<policy, decisions, outputs, bk, loopVars, sw, ig, ex, cz, oc>>

\* The lines are exhausted: the flush, and the metrics are returned.
AiderReturns ==
    /\ ad.apc = "lines"
    /\ ad.pos = Len(ad.lines)
    /\ ad' = [flush(ad) EXCEPT !.apc = "done"]
    /\ UNCHANGED <<policy, decisions, outputs, bk, loopVars, sw, ig, ex, cz, oc>>

AiderInit ==
    /\ NoLoop /\ NoBackoff /\ NoRetryHistory
    /\ policy = new(0, 0)
    /\ sw = NoStatusWrite
    /\ ig = NoIngestion
    /\ ex = NoRules
    /\ cz = NoCompression
    /\ oc = NoParse
    /\ \E lines \in Transcripts(MaxTranscript) :
         ad = [NoAider EXCEPT !.lines = lines, !.apc = "lines"]

AiderNext ==
    \/ AiderReadLine
    \/ AiderReturns

SpecAider == AiderInit /\ [][AiderNext]_vars


\* The positions of the prompt lines and of the lines of a response.
PromptsAt(lines) == {i \in 1..Len(lines) : is_user_prompt(lines[i])}
ResponseAt(lines) ==
    {i \in 1..Len(lines) : ~is_user_prompt(lines[i]) /\ lines[i] # <<>>}

\* The response blocks: the response lines with no response line before them
\* since the last prompt (or since the start).
BlocksAt(lines) ==
    {i \in ResponseAt(lines) :
        \A j \in ResponseAt(lines) :
            j < i => \E k \in PromptsAt(lines) : j < k /\ k < i}

\* Every prompt has a response line after it and before the next prompt, and
\* no response line comes before the first prompt.
EachPromptAnswered(lines) ==
    /\ \A p \in PromptsAt(lines) :
          \E r \in ResponseAt(lines) :
              /\ p < r
              /\ \A q \in PromptsAt(lines) : ~(p < q /\ q < r)
    /\ \A r \in ResponseAt(lines) : \E p \in PromptsAt(lines) : p < r

\* C31: turns.total of an Aider transcript is the number of its response
\* blocks, a block before the first prompt or after the last one counting
\* once and prompts with no response line between them adding none; when
\* every prompt is followed by a response block and nothing comes before the
\* first prompt, turns.total is the number of prompts.
C31_AiderTurnsAreResponseBlocks ==
    ad.apc = "done" =>
        /\ ad.turns_total = Cardinality(BlocksAt(ad.lines))
        /\ EachPromptAnswered(ad.lines) =>
              ad.turns_total = Cardinality(PromptsAt(ad.lines))

\* A transcript of two prompts, each with its response, gave two turns.
C31_Witness ==
    /\ ad.apc = "done"
    /\ Len(ad.lines) = 4
    /\ EachPromptAnswered(ad.lines)
    /\ Cardinality(PromptsAt(ad.lines)) = 2
    /\ ad.turns_total = 2


----------------------------------------------------------------------------
(* Termination of the loop, checked under Spec *)

\* The steps of one attempt, and the steps from the decision to the next
\* loop head, in the order the loop takes them.
StepOrder ==
    <<"retry", "ratelimit", "ingest", "wait", "spawn", "pre_hooks", "counters",
      "top", "idle", "sleep", "compact", "post_hooks", "start">>

PositionOf(p) == CHOOSE i \in 1..Len(StepOrder) : StepOrder[i] = p

\* The evaluations the retry policy has left before it skips; after the
\* decision and until the next attempt begins, all of them.
AttemptsLeft ==
    IF pc \in {"start", "post_hooks", "compact", "sleep", "idle", "top"}
    THEN policy.max_retries + 1
    ELSE policy.max_retries + 1 - policy.current_attempt

\* What a run has left to do: the productive iterations, then the attempts
\* of the iteration, then the steps of the attempt.
Rank ==
    CASE pc = "done" -> 0
      [] pc = "exiting" -> 1
      [] OTHER ->
           2 + ((config.max_iterations - iteration) * (policy.max_retries + 2)
                    + AttemptsLeft) * (Len(StepOrder) + 1)
             + PositionOf(pc)
           + (IF shutdown THEN 0 ELSE 1)

\* The scan of step 6 has a next step: without a signature NotRateLimited,
\* with one RateLimited below the cap and RateLimitCap at it (past their
\* guards the two only assign).
ScanCanStep ==
    IF session.rate_limited
    THEN \/ consecutive_rate_limits + 1 < config.max_consecutive_rate_limits
         \/ consecutive_rate_limits + 1 >= config.max_consecutive_rate_limits
    ELSE ENABLED NotRateLimited

----------------------------------------------------------------------------
(* The order of the visible effects of an iteration, checked under Spec *)

\* The steps with a visible effect other than a status write.
KillEffect == session = NoSession /\ session' # NoSession /\ session'.outcome = "killed"
IngestEffect == ~ingested /\ ingested'
CompactEffect == pc = "compact" /\ pc' # "compact"

----------------------------------------------------------------------------
(* The harness states written to the status file, checked under SpecShutdown *)

\* The edges of the transition diagram between the states other than
\* shutting_down, which every state can go to.
DiagramEdges ==
    { <<"starting", "pre_hooks">>, <<"idle", "pre_hooks">>,
      <<"pre_hooks", "session_running">>, <<"retrying", "session_running">>,
      <<"session_running", "watchdog_kill">>,
      <<"session_running", "retrying">>, <<"watchdog_kill", "retrying">>,
      <<"session_running", "post_hooks">>, <<"watchdog_kill", "post_hooks">>,
      <<"session_running", "rate_limited_backoff">>,
      <<"watchdog_kill", "rate_limited_backoff">>,
      <<"post_hooks", "rate_limited_backoff">>,
      <<"post_hooks", "idle">>, <<"rate_limited_backoff", "idle">>,
      <<"session_running", "idle">>, <<"watchdog_kill", "idle">> }

\* A step that changes the state in the status file.
StateChange ==
    /\ status_file # NoFile /\ status_file' # NoFile
    /\ status_file'.state # status_file.state

\* C35: the first state written is starting; after shutting_down the only
\* change of the status file is its removal, and no session is spawned; a
\* change to a state other than shutting_down follows an edge of the
\* diagram, the edges from session_running or watchdog_kill to idle being
\* those of a skip.
C35_StatesFollowTheDiagram ==
    /\ [][(status_file = NoFile /\ status_file' # NoFile) =>
            (pc = "start" /\ status_file'.state = "starting")]_vars
    /\ [][(status_file # NoFile /\ status_file.state = "shutting_down") =>
            /\ status_file' \in {status_file, NoFile}
            /\ spawns' = spawns]_vars
    /\ [][(pc \in {"exiting", "done"}) =>
            /\ status_file' \in {status_file, NoFile}
            /\ spawns' = spawns]_vars
    /\ [][(StateChange /\ status_file'.state # "shutting_down") =>
            /\ <<status_file.state, status_file'.state>> \in DiagramEdges
            /\ (status_file'.state = "idle" /\ status_file.state # "post_hooks"
                    /\ status_file.state # "rate_limited_backoff")
                 => decision = Skip]_vars

\* The run has gone through retrying, post_hooks and idle and has written
\* shutting_down at the cap of the rate limits.
C35_Witness ==
    /\ pc = "exiting"
    /\ status_file.state = "shutting_down"
    /\ status_file.consecutive_rate_limits = 2
    /\ iteration = 1
    /\ spawns.count = 3


----------------------------------------------------------------------------
(* Two iterations with watched sessions: the wait of a later session. *)

\* The runner sets up the wait of the next session: a new child, a new
\* output file and a new watchdog with the same settings.
NewWait ==
    /\ pc = "wait"
    /\ wd.phase = "returned"
    /\ wd' = Watchdog_new(wd.check_interval, wd.stale_timeout)
    /\ UNCHANGED <<config, pc, status_file, counter_file, shutdown,
                   stop_file, interrupted, exit_code, spawns, crashes,
                   tracker, global_iteration, iteration,
                   consecutive_rate_limits, session, ingested, decision,
                   backoff_secs, attempts, post_hooks_ran, pre_hooks_log,
                   post_hooks_log, sleeps, policy>>
    /\ UNCHANGED <<decisions, outputs, bk, auxVars>>

\* Two iterations, no retry, a rate-limit cap of 2, no hooks.
RaceConfigs ==
    {[max_iterations |-> 2, max_empty_retries |-> 0, min_output_bytes |-> 1,
      max_consecutive_rate_limits |-> 2,
      initial_delay_secs |-> 1, max_delay_secs |-> 8,
      pre_session |-> 0, post_session |-> 0]}

RaceInit ==
    /\ config \in RaceConfigs
    /\ FreshRun
    /\ \E ci \in 1..MaxCheckInterval, st \in 1..MaxStaleTimeout :
         wd = Watchdog_new(ci, st)

\* The loop's steps, the session wait in steps.
RaceLoopStep ==
    \/ Start
    \/ LoopEnds
    \/ BeginIteration
    \/ Counters
    \/ PreHooksPass
    \/ StopBeforeSpawn
    \/ Spawn
    \/ NewWait
    \/ StartWatch
    \/ WaitReturns
    \/ Ingest
    \/ InterruptExit
    \/ RateLimited
    \/ RateLimitCap
    \/ NotRateLimited
    \/ DecideSkip
    \/ DecideProceed
    \/ PostHooks
    \/ Compact
    \/ BackoffSleep
    \/ NoSleep
    \/ Idle
    \/ Exit

RaceNext == RaceLoopStep \/ WatchdogStep \/ WatchEnvironment

SpecRace == RaceInit /\ [][RaceNext]_vars


\* The step that ends a session wait.
WaitEnds == pc = "wait" /\ pc' # "wait"

\* C33 (under SpecRace): the step that ends a session wait takes exactly one
\* outcome, the child's exit, the watchdog's kill or the interrupt, and
\* leaves the child exited and the watchdog cancelled; outside a session
\* wait no watchdog is watching; and every tick and every kill of the
\* watchdog happens during a session wait that has not yet ended.
C33_WaitersStopBeforeLoopAdvances ==
    /\ [][WaitEnds =>
            /\ pc' = "ingest"
            /\ wd'.child = "exited"
            /\ wd'.phase = "returned"
            /\ session'.outcome \in {"exited", "killed", "interrupted"}
            /\ session'.outcome = "interrupted" <=> interrupted
            /\ session'.outcome = "killed" <=> (wd.report = "Killed" /\ ~interrupted)
            /\ session'.outcome = "exited" <=> (wd.signals = 0 /\ ~interrupted)]_vars
    /\ [](pc # "wait" => wd.phase # "watching")
    /\ [][(Tick \/ ForceKill) => (pc = "wait" /\ session = NoSession)]_vars

\* The wait of the first session has ended and its watchdog was cancelled;
\* the second session is in its wait, with a watchdog of its own that has
\* seen output and has not signalled.
C33_Witness ==
    /\ pc = "wait"
    /\ spawns.count = 2
    /\ iteration = 1
    /\ wd.phase = "watching"
    /\ wd.signals = 0
    /\ wd.child = "running"
    /\ wd.prev_len > 0


----------------------------------------------------------------------------
(* compress_file step by step: read, encode, write the destination, remove
   the original.  The process can die between any two steps. *)

\* let input = std::fs::read(path)?
ReadOriginal ==
    /\ cz.cpc = "sweep" /\ cz.step = "none"
    /\ \E entry \in cz.todo :
         /\ Eligible(cz, entry)
         /\ cz' = [cz EXCEPT !.step = "read", !.cur = entry, !.buf = cz.dir[entry]]
    /\ UNCHANGED <<policy, decisions, outputs, bk, loopVars, sw, ig, ex, oc, ad>>

\* let compressed = zstd::encode_all(input.as_slice(), 3)?
EncodeInput ==
    /\ cz.cpc = "sweep" /\ cz.step = "read"
    /\ cz' = [cz EXCEPT !.step = "encoded", !.buf = encode_all(@)]
    /\ UNCHANGED <<policy, decisions, outputs, bk, loopVars, sw, ig, ex, oc, ad>>

\* std::fs::write(&dest, compressed): the destination is created or truncated.
OpenDest ==
    /\ cz.cpc = "sweep" /\ cz.step = "encoded"
    /\ cz' = [cz EXCEPT !.step = "writing",
                        !.dir = write_file(@, with_extension(cz.cur), <<>>)]
    /\ UNCHANGED <<policy, decisions, outputs, bk, loopVars, sw, ig, ex, oc, ad>>

\* std::fs::write: the next bytes reach the destination; with the last of
\* them the call returns Ok.
WriteDest ==
    /\ cz.cpc = "sweep" /\ cz.step = "writing"
    /\ LET dest == with_extension(cz.cur)
           n == Len(cz.dir[dest]) + 1
       IN cz' = [cz EXCEPT !.dir = write_file(@, dest, SubSeq(cz.buf, 1, n)),
                           !.step = IF n = Len(cz.buf) THEN "written" ELSE "writing"]
    /\ UNCHANGED <<policy, decisions, outputs, bk, loopVars, sw, ig, ex, oc, ad>>

\* The original is removed as soon as the input is encoded.
RemoveOriginal_BeforeWrite ==
    /\ cz.cpc = "sweep" /\ cz.step = "encoded"
    /\ cz' = [cz EXCEPT !.dir = remove_file(@, cz.cur),
                        !.todo = @ \ {cz.cur},
                        !.step = "none", !.cur = <<>>, !.buf = <<>>]
    /\ UNCHANGED <<policy, decisions, outputs, bk, loopVars, sw, ig, ex, oc, ad>>

\* std::fs::remove_file(path)?; Ok(())
RemoveOriginal ==
    /\ cz.cpc = "sweep" /\ cz.step = "written"
    /\ cz' = [cz EXCEPT !.dir = remove_file(@, cz.cur),
                        !.todo = @ \ {cz.cur},
                        !.step = "none", !.cur = <<>>, !.buf = <<>>]
    /\ UNCHANGED <<policy, decisions, outputs, bk, loopVars, sw, ig, ex, oc, ad>>

\* One of the calls returns Err: `?` leaves compress_file, the sweep logs
\* the file and goes on.
StepFails ==
    /\ cz.cpc = "sweep" /\ cz.step \in {"read", "encoded", "writing", "written"}
    /\ cz' = [cz EXCEPT !.todo = on_compress_error(@, cz.cur),
                        !.failed = @ \cup {cz.cur},
                        !.io_failure = TRUE,
                        !.step = "none", !.cur = <<>>, !.buf = <<>>]
    /\ UNCHANGED <<policy, decisions, outputs, bk, loopVars, sw, ig, ex, oc, ad>>

\* The read of the original fails.
ReadOriginalFails ==
    /\ cz.cpc = "sweep" /\ cz.step = "none"
    /\ \E entry \in cz.todo :
         /\ Eligible(cz, entry)
         /\ cz' = [cz EXCEPT !.todo = on_compress_error(@, entry),
                             !.failed = @ \cup {entry},
                             !.io_failure = TRUE]
    /\ UNCHANGED <<policy, decisions, outputs, bk, loopVars, sw, ig, ex, oc, ad>>

\* The process dies during the sweep: the directory stays as it is.
ProcessDies ==
    /\ cz.cpc = "sweep"
    /\ cz' = [cz EXCEPT !.cpc = "crashed"]
    /\ UNCHANGED <<policy, decisions, outputs, bk, loopVars, sw, ig, ex, oc, ad>>

CompressStepsNext ==
    \/ StartSweep
    \/ ReadDirFails
    \/ SkipEntry
    \/ ReadOriginal
    \/ ReadOriginalFails
    \/ EncodeInput
    \/ OpenDest
    \/ WriteDest
    \/ RemoveOriginal
    \/ StepFails
    \/ ProcessDies
    \/ EndSweep

\* The sweeps that get to the files: compress_after > 0, a current
\* iteration at or next to the largest of the model, and a directory of
\* session files and archives only.
CompressStepsInit ==
    /\ CompressInit
    /\ cz.compress_after > 0
    /\ cz.current_iteration >= MaxCurrent - 1
    /\ DOMAIN cz.dir \cap OddNames = {}

SpecCompressSteps == CompressStepsInit /\ [][CompressStepsNext]_vars


\* C39: in every state of a sweep, between any two steps and after a failure
\* or the death of the process, every session file {N}.jsonl that was there
\* before is either still there with its content, or gone with {N}.jsonl.zst
\* present, whole, and decompressing to that content.
C39_OriginalRemovedOnlyAfterWholeArchive ==
    \A name \in DOMAIN cz.before :
        IsSessionName(name) =>
            \/ /\ Present(cz.dir, name)
               /\ cz.dir[name] = cz.before[name]
            \/ /\ ~Present(cz.dir, name)
               /\ Present(cz.dir, with_extension(name))
               /\ cz.dir[with_extension(name)] = encode_all(cz.before[name])
               /\ decode_all(cz.dir[with_extension(name)]) = Some(cz.before[name])

\* The process died while the archive of 1.jsonl was partly written, after
\* 0.jsonl had been replaced by its archive.
C39_Witness ==
    /\ cz.cpc = "crashed" /\ cz.step = "writing"
    /\ cz.cur = jsonl_name(1)
    /\ Present(cz.dir, jsonl_name(1))
    /\ Present(cz.dir, zst_name(1))
    /\ decode_all(cz.dir[zst_name(1)]) = None
    /\ Len(cz.dir[zst_name(1)]) > 0
    /\ Present(cz.before, jsonl_name(0)) /\ ~Present(cz.dir, jsonl_name(0))
    /\ Present(cz.dir, zst_name(0))

====
